---- MODULE Spec2Model ----
(***************************************************************************)
(* Model of the u-blox configuration-command compiler ubx_gen_cmd          *)
(* (src/unnamed/part_004) and of the way the firmware calls it.            *)
(*                                                                         *)
(* A C string is a sequence of one-character strings, a byte buffer is a   *)
(* sequence of numbers 0..255 whose C index i is the TLA+ index i+1.       *)
(* A 32-bit int is a number in -2^31 .. 2^31-1.                            *)
(***************************************************************************)
EXTENDS Integers, Sequences, FiniteSets, TLC

\* ---- bounds of the model ------------------------------------------------------
\* capacity of the caller's output buffer in the model
BuffLen == 160
\* number of free arguments enumerated for each generic family
MaxArgs == 2
\* number of ubx_gen_cmd calls the caller makes on one buffer
MaxCalls == 2

\* ---- program constants --------------------------------------------------------
UBXSYNC1 == \hB5
UBXSYNC2 == \h62
UBXCFG == \h06

FU1 == 1
FU2 == 2
FU4 == 3
FU8 == 4
FI1 == 5
FI2 == 6
FI4 == 7
FR4 == 8
FR8 == 9
FS32 == 10

\* an args[] of one more entry
MAXARGS_33 == 32 + 1

\* the tokenizer fills char *args[32]
MAXARGS == 32

\* the null pointer, distinct from every string and every buffer
NULL == <<"NULL">>

\* ---- static tables of ubx_gen_cmd ------------------------------------------
\* cmd[]: command family names, terminated by the empty sentinel.
cmd ==
  <<
    <<"P","R","T">>,  \* 0 "PRT"
    <<"U","S","B">>,  \* 1 "USB"
    <<"M","S","G">>,  \* 2 "MSG"
    <<"N","M","E","A">>,  \* 3 "NMEA"
    <<"R","A","T","E">>,  \* 4 "RATE"
    <<"C","F","G">>,  \* 5 "CFG"
    <<"T","P">>,  \* 6 "TP"
    <<"N","A","V","2">>,  \* 7 "NAV2"
    <<"D","A","T">>,  \* 8 "DAT"
    <<"I","N","F">>,  \* 9 "INF"
    <<"R","S","T">>,  \* 10 "RST"
    <<"R","X","M">>,  \* 11 "RXM"
    <<"A","N","T">>,  \* 12 "ANT"
    <<"F","X","N">>,  \* 13 "FXN"
    <<"S","B","A","S">>,  \* 14 "SBAS"
    <<"L","I","C">>,  \* 15 "LIC"
    <<"T","M">>,  \* 16 "TM"
    <<"T","M","2">>,  \* 17 "TM2"
    <<"T","M","O","D","E">>,  \* 18 "TMODE"
    <<"E","K","F">>,  \* 19 "EKF"
    <<"G","N","S","S">>,  \* 20 "GNSS"
    <<"I","T","F","M">>,  \* 21 "ITFM"
    <<"L","O","G","F","I","L","T","E","R">>,  \* 22 "LOGFILTER"
    <<"N","A","V","5">>,  \* 23 "NAV5"
    <<"N","A","V","X","5">>,  \* 24 "NAVX5"
    <<"O","D","O">>,  \* 25 "ODO"
    <<"P","M","2">>,  \* 26 "PM2"
    <<"P","W","R">>,  \* 27 "PWR"
    <<"R","I","N","V">>,  \* 28 "RINV"
    <<"S","M","G","R">>,  \* 29 "SMGR"
    <<"T","M","O","D","E","2">>,  \* 30 "TMODE2"
    <<"T","M","O","D","E","3">>,  \* 31 "TMODE3"
    <<"T","P","S">>,  \* 32 "TPS"
    <<"T","X","S","L","O","T">>,  \* 33 "TXSLOT"
    <<"V","A","L","D","E","L">>,  \* 34 "VALDEL"
    <<"V","A","L","G","E","T">>,  \* 35 "VALGET"
    <<"V","A","L","S","E","T">>,  \* 36 "VALSET"
    <<>>  \* 37 ""
  >>

\* id[] with the entry of the last family (VALSET) left out
id_short ==
  <<\h00, \h1B, \h01, \h17, \h08, \h09, \h07, \h1A, \h06, \h02, \h04, \h11, \h13, \h0E, \h16, \h80, \h10, \h19, \h1D,
    \h12, \h3E, \h39, \h47, \h24, \h23, \h1E, \h3B, \h57, \h34, \h62, \h36, \h71, \h31, \h53, \h8C, \h8B>>

\* id[]: sub-id of each family, same order as cmd[].
id ==
  <<\h00, \h1B, \h01, \h17, \h08, \h09, \h07, \h1A, \h06, \h02, \h04, \h11, \h13, \h0E, \h16, \h80, \h10, \h19, \h1D,
    \h12, \h3E, \h39, \h47, \h24, \h23, \h1E, \h3B, \h57, \h34, \h62, \h36, \h71, \h31, \h53, \h8C, \h8B, \h8A>>

\* prm[][32]: declared field types of each family; a C row shorter than 32
\* is zero-filled by the initializer.
prm_rows ==
  <<
    <<FU1, FU1, FU2, FU4, FU4, FU2, FU2, FU2, FU2>>,  \* PRT
    <<FU2, FU2, FU2, FU2, FU2, FU2, FS32, FS32, FS32>>,  \* USB
    <<FU1, FU1, FU1, FU1, FU1, FU1, FU1, FU1>>,  \* MSG
    <<FU1, FU1, FU1, FU1>>,  \* NMEA
    <<FU2, FU2, FU2>>,  \* RATE
    <<FU4, FU4, FU4, FU1>>,  \* CFG
    <<FU4, FU4, FI1, FU1, FU2, FI2, FI2, FI4>>,  \* TP
    <<FU1, FU1, FU2, FU1, FU1, FU1, FU1, FI4, FU1, FU1, FU1, FU1, FU1, FU1, FU2, FU2, FU2, FU2, FU2, FU1, FU1, FU2, FU4, FU4>>,  \* NAV2
    <<FR8, FR8, FR4, FR4, FR4, FR4, FR4, FR4, FR4>>,  \* DAT
    <<FU1, FU1, FU1, FU1, FU1, FU1, FU1, FU1, FU1, FU1>>,  \* INF
    <<FU2, FU1, FU1>>,  \* RST
    <<FU1, FU1>>,  \* RXM
    <<FU2, FU2>>,  \* ANT
    <<FU4, FU4, FU4, FU4, FU4, FU4, FU4, FU4>>,  \* FXN
    <<FU1, FU1, FU1, FU1, FU4>>,  \* SBAS
    <<FU2, FU2, FU2, FU2, FU2, FU2>>,  \* LIC
    <<FU4, FU4, FU4>>,  \* TM
    <<FU1, FU1, FU2, FU4, FU4>>,  \* TM2
    <<FU4, FI4, FI4, FI4, FU4, FU4, FU4>>,  \* TMODE
    <<FU1, FU1, FU1, FU1, FU4, FU2, FU2, FU1, FU1, FU2>>,  \* EKF
    <<FU1, FU1, FU1, FU1, FU1, FU1, FU1, FU1, FU4>>,  \* GNSS
    <<FU4, FU4>>,  \* ITFM
    <<FU1, FU1, FU2, FU2, FU2, FU4>>,  \* LOGFILTER
    <<FU2, FU1, FU1, FI4, FU4, FI1, FU1, FU2, FU2, FU2, FU2, FU1, FU1, FU1, FU1, FU1, FU1, FU2, FU1, FU1, FU1, FU1, FU1, FU1>>,  \* NAV5
    <<FU2, FU2, FU4, FU1, FU1, FU1, FU1, FU1, FU1, FU1, FU1, FU1, FU1, FU2, FU1, FU1, FU1, FU1, FU1, FU1, FU1, FU1, FU1, FU1, FU2>>,  \* NAVX5
    <<FU1, FU1, FU1, FU1, FU1, FU1, FU1, FU1, FU1>>,  \* ODO
    <<FU1, FU1, FU1, FU1, FU4, FU4, FU4, FU4, FU2, FU2>>,  \* PM2
    <<FU1, FU1, FU1, FU1, FU4>>,  \* PWR
    <<FU1, FU1>>,  \* RINV
    <<FU1, FU1, FU2, FU2, FU1, FU1, FU2, FU2, FU2, FU2, FU4>>,  \* SMGR
    <<FU1, FU1, FU2, FI4, FI4, FI4, FU4, FU4, FU4>>,  \* TMODE2
    <<FU1, FU1, FU2, FI4, FI4, FI4, FU4, FU4, FU4>>,  \* TMODE3
    <<FU1, FU1, FU1, FU1, FI2, FI2, FU4, FU4, FU4, FU4, FI4, FU4>>,  \* TPS
    <<FU1, FU1, FU1, FU1, FU4, FU4, FU4, FU4, FU4>>,  \* TXSLOT
    <<FU1, FU1, FU1, FU1>>,  \* VALDEL
    <<FU1, FU1, FU2>>,  \* VALGET
    <<FU1, FU1, FU1, FU1>>  \* VALSET
  >>

prm == [i \in 1..Len(prm_rows) |->
          [c \in 1..32 |-> IF c <= Len(prm_rows[i]) THEN prm_rows[i][c] ELSE 0]]

\* vcmd[]: configuration key names, terminated by the empty sentinel.
vcmd ==
  <<
    <<"G","E","O","F","E","N","C","E","-","C","O","N","F","L","V","L">>,  \* 0 "GEOFENCE-CONFLVL"
    <<"G","E","O","F","E","N","C","E","-","U","S","E","_","P","I","O">>,  \* 1 "GEOFENCE-USE_PIO"
    <<"G","E","O","F","E","N","C","E","-","P","I","N","P","O","L">>,  \* 2 "GEOFENCE-PINPOL"
    <<"G","E","O","F","E","N","C","E","-","P","I","N">>,  \* 3 "GEOFENCE-PIN"
    <<"G","E","O","F","E","N","C","E","-","U","S","E","_","F","E","N","C","E","1">>,  \* 4 "GEOFENCE-USE_FENCE1"
    <<"G","E","O","F","E","N","C","E","-","F","E","N","C","E","1","_","L","A","T">>,  \* 5 "GEOFENCE-FENCE1_LAT"
    <<"G","E","O","F","E","N","C","E","-","F","E","N","C","E","1","_","L","O","N">>,  \* 6 "GEOFENCE-FENCE1_LON"
    <<"G","E","O","F","E","N","C","E","-","F","E","N","C","E","1","_","R","A","D">>,  \* 7 "GEOFENCE-FENCE1_RAD"
    <<"G","E","O","F","E","N","C","E","-","U","S","E","_","F","E","N","C","E","2">>,  \* 8 "GEOFENCE-USE_FENCE2"
    <<"G","E","O","F","E","N","C","E","-","F","E","N","C","E","2","_","L","A","T">>,  \* 9 "GEOFENCE-FENCE2_LAT"
    <<"G","E","O","F","E","N","C","E","-","F","E","N","C","E","2","_","L","O","N">>,  \* 10 "GEOFENCE-FENCE2_LON"
    <<"G","E","O","F","E","N","C","E","-","F","E","N","C","E","2","_","R","A","D">>,  \* 11 "GEOFENCE-FENCE2_RAD"
    <<"G","E","O","F","E","N","C","E","-","U","S","E","_","F","E","N","C","E","3">>,  \* 12 "GEOFENCE-USE_FENCE3"
    <<"G","E","O","F","E","N","C","E","-","F","E","N","C","E","3","_","L","A","T">>,  \* 13 "GEOFENCE-FENCE3_LAT"
    <<"G","E","O","F","E","N","C","E","-","F","E","N","C","E","3","_","L","O","N">>,  \* 14 "GEOFENCE-FENCE3_LON"
    <<"G","E","O","F","E","N","C","E","-","F","E","N","C","E","3","_","R","A","D">>,  \* 15 "GEOFENCE-FENCE3_RAD"
    <<"G","E","O","F","E","N","C","E","-","U","S","E","_","F","E","N","C","E","4">>,  \* 16 "GEOFENCE-USE_FENCE4"
    <<"G","E","O","F","E","N","C","E","-","F","E","N","C","E","4","_","L","A","T">>,  \* 17 "GEOFENCE-FENCE4_LAT"
    <<"G","E","O","F","E","N","C","E","-","F","E","N","C","E","4","_","L","O","N">>,  \* 18 "GEOFENCE-FENCE4_LON"
    <<"G","E","O","F","E","N","C","E","-","F","E","N","C","E","4","_","R","A","D">>,  \* 19 "GEOFENCE-FENCE4_RAD"
    <<"H","W","-","A","N","T","_","C","F","G","_","V","O","L","T","C","T","R","L">>,  \* 20 "HW-ANT_CFG_VOLTCTRL"
    <<"H","W","-","A","N","T","_","C","F","G","_","S","H","O","R","T","D","E","T">>,  \* 21 "HW-ANT_CFG_SHORTDET"
    <<"H","W","-","A","N","T","_","C","F","G","_","S","H","O","R","T","D","E","T","_","P","O","L">>,  \* 22 "HW-ANT_CFG_SHORTDET_POL"
    <<"H","W","-","A","N","T","_","C","F","G","_","O","P","E","N","D","E","T">>,  \* 23 "HW-ANT_CFG_OPENDET"
    <<"H","W","-","A","N","T","_","C","F","G","_","O","P","E","N","D","E","T","_","P","O","L">>,  \* 24 "HW-ANT_CFG_OPENDET_POL"
    <<"H","W","-","A","N","T","_","C","F","G","_","P","W","R","D","O","W","N">>,  \* 25 "HW-ANT_CFG_PWRDOWN"
    <<"H","W","-","A","N","T","_","C","F","G","_","P","W","R","D","O","W","N","_","P","O","L">>,  \* 26 "HW-ANT_CFG_PWRDOWN_POL"
    <<"H","W","-","A","N","T","_","C","F","G","_","R","E","C","O","V","E","R">>,  \* 27 "HW-ANT_CFG_RECOVER"
    <<"H","W","-","A","N","T","_","S","U","P","_","S","W","I","T","C","H","_","P","I","N">>,  \* 28 "HW-ANT_SUP_SWITCH_PIN"
    <<"H","W","-","A","N","T","_","S","U","P","_","S","H","O","R","T","_","P","I","N">>,  \* 29 "HW-ANT_SUP_SHORT_PIN"
    <<"H","W","-","A","N","T","_","S","U","P","_","O","P","E","N","_","P","I","N">>,  \* 30 "HW-ANT_SUP_OPEN_PIN"
    <<"I","2","C","-","A","D","D","R","E","S","S">>,  \* 31 "I2C-ADDRESS"
    <<"I","2","C","-","E","X","T","E","N","D","E","D","T","I","M","E","O","U","T">>,  \* 32 "I2C-EXTENDEDTIMEOUT"
    <<"I","2","C","-","E","N","A","B","L","E","D">>,  \* 33 "I2C-ENABLED"
    <<"I","2","C","I","N","P","R","O","T","-","U","B","X">>,  \* 34 "I2CINPROT-UBX"
    <<"I","2","C","I","N","P","R","O","T","-","N","M","E","A">>,  \* 35 "I2CINPROT-NMEA"
    <<"I","2","C","I","N","P","R","O","T","-","R","T","C","M","2","X">>,  \* 36 "I2CINPROT-RTCM2X"
    <<"I","2","C","I","N","P","R","O","T","-","R","T","C","M","3","X">>,  \* 37 "I2CINPROT-RTCM3X"
    <<"I","2","C","O","U","T","P","R","O","T","-","U","B","X">>,  \* 38 "I2COUTPROT-UBX"
    <<"I","2","C","O","U","T","P","R","O","T","-","N","M","E","A">>,  \* 39 "I2COUTPROT-NMEA"
    <<"I","2","C","O","U","T","P","R","O","T","-","R","T","C","M","3","X">>,  \* 40 "I2COUTPROT-RTCM3X"
    <<"I","N","F","M","S","G","-","U","B","X","_","I","2","C">>,  \* 41 "INFMSG-UBX_I2C"
    <<"I","N","F","M","S","G","-","U","B","X","_","U","A","R","T","1">>,  \* 42 "INFMSG-UBX_UART1"
    <<"I","N","F","M","S","G","-","U","B","X","_","U","A","R","T","2">>,  \* 43 "INFMSG-UBX_UART2"
    <<"I","N","F","M","S","G","-","U","B","X","_","U","S","B">>,  \* 44 "INFMSG-UBX_USB"
    <<"I","N","F","M","S","G","-","U","B","X","_","S","P","I">>,  \* 45 "INFMSG-UBX_SPI"
    <<"I","N","F","M","S","G","-","N","M","E","A","_","I","2","C">>,  \* 46 "INFMSG-NMEA_I2C"
    <<"I","N","F","M","S","G","-","N","M","E","A","_","U","A","R","T","1">>,  \* 47 "INFMSG-NMEA_UART1"
    <<"I","N","F","M","S","G","-","N","M","E","A","_","U","A","R","T","2">>,  \* 48 "INFMSG-NMEA_UART2"
    <<"I","N","F","M","S","G","-","N","M","E","A","_","U","S","B">>,  \* 49 "INFMSG-NMEA_USB"
    <<"I","N","F","M","S","G","-","N","M","E","A","_","S","P","I">>,  \* 50 "INFMSG-NMEA_SPI"
    <<"I","T","F","M","-","B","B","T","H","R","E","S","H","O","L","D">>,  \* 51 "ITFM-BBTHRESHOLD"
    <<"I","T","F","M","-","C","W","T","H","R","E","S","H","O","L","D">>,  \* 52 "ITFM-CWTHRESHOLD"
    <<"I","T","F","M","-","E","N","A","B","L","E">>,  \* 53 "ITFM-ENABLE"
    <<"I","T","F","M","-","A","N","T","S","E","T","T","I","N","G">>,  \* 54 "ITFM-ANTSETTING"
    <<"I","T","F","M","-","E","N","A","B","L","E","_","A","U","X">>,  \* 55 "ITFM-ENABLE_AUX"
    <<"L","O","G","F","I","L","T","E","R","-","R","E","C","O","R","D","_","E","N","A">>,  \* 56 "LOGFILTER-RECORD_ENA"
    <<"L","O","G","F","I","L","T","E","R","-","O","N","C","E","_","P","E","R","_","W","A","K","E","_","U","P","_","E","N","A">>,  \* 57 "LOGFILTER-ONCE_PER_WAKE_UP_ENA"
    <<"L","O","G","F","I","L","T","E","R","-","A","P","P","L","Y","_","A","L","L","_","F","I","L","T","E","R","S">>,  \* 58 "LOGFILTER-APPLY_ALL_FILTERS"
    <<"L","O","G","F","I","L","T","E","R","-","M","I","N","_","I","N","T","E","R","V","A","L">>,  \* 59 "LOGFILTER-MIN_INTERVAL"
    <<"L","O","G","F","I","L","T","E","R","-","T","I","M","E","_","T","H","R","S">>,  \* 60 "LOGFILTER-TIME_THRS"
    <<"L","O","G","F","I","L","T","E","R","-","S","P","E","E","D","_","T","H","R","S">>,  \* 61 "LOGFILTER-SPEED_THRS"
    <<"L","O","G","F","I","L","T","E","R","-","P","O","S","I","T","I","O","N","_","T","H","R","S">>,  \* 62 "LOGFILTER-POSITION_THRS"
    <<"M","O","T","-","G","N","S","S","S","P","E","E","D","_","T","H","R","S">>,  \* 63 "MOT-GNSSSPEED_THRS"
    <<"M","O","T","-","G","N","S","S","D","I","S","T","_","T","H","R","S">>,  \* 64 "MOT-GNSSDIST_THRS"
    <<"M","S","G","O","U","T","-","N","M","E","A","_","I","D","_","D","T","M","_","I","2","C">>,  \* 65 "MSGOUT-NMEA_ID_DTM_I2C"
    <<"M","S","G","O","U","T","-","N","M","E","A","_","I","D","_","D","T","M","_","S","P","I">>,  \* 66 "MSGOUT-NMEA_ID_DTM_SPI"
    <<"M","S","G","O","U","T","-","N","M","E","A","_","I","D","_","D","T","M","_","U","A","R","T","1">>,  \* 67 "MSGOUT-NMEA_ID_DTM_UART1"
    <<"M","S","G","O","U","T","-","N","M","E","A","_","I","D","_","D","T","M","_","U","A","R","T","2">>,  \* 68 "MSGOUT-NMEA_ID_DTM_UART2"
    <<"M","S","G","O","U","T","-","N","M","E","A","_","I","D","_","D","T","M","_","U","S","B">>,  \* 69 "MSGOUT-NMEA_ID_DTM_USB"
    <<"M","S","G","O","U","T","-","N","M","E","A","_","I","D","_","G","B","S","_","I","2","C">>,  \* 70 "MSGOUT-NMEA_ID_GBS_I2C"
    <<"M","S","G","O","U","T","-","N","M","E","A","_","I","D","_","G","B","S","_","S","P","I">>,  \* 71 "MSGOUT-NMEA_ID_GBS_SPI"
    <<"M","S","G","O","U","T","-","N","M","E","A","_","I","D","_","G","B","S","_","U","A","R","T","1">>,  \* 72 "MSGOUT-NMEA_ID_GBS_UART1"
    <<"M","S","G","O","U","T","-","N","M","E","A","_","I","D","_","G","B","S","_","U","A","R","T","2">>,  \* 73 "MSGOUT-NMEA_ID_GBS_UART2"
    <<"M","S","G","O","U","T","-","N","M","E","A","_","I","D","_","G","B","S","_","U","S","B">>,  \* 74 "MSGOUT-NMEA_ID_GBS_USB"
    <<"M","S","G","O","U","T","-","N","M","E","A","_","I","D","_","G","G","A","_","I","2","C">>,  \* 75 "MSGOUT-NMEA_ID_GGA_I2C"
    <<"M","S","G","O","U","T","-","N","M","E","A","_","I","D","_","G","G","A","_","S","P","I">>,  \* 76 "MSGOUT-NMEA_ID_GGA_SPI"
    <<"M","S","G","O","U","T","-","N","M","E","A","_","I","D","_","G","G","A","_","U","A","R","T","1">>,  \* 77 "MSGOUT-NMEA_ID_GGA_UART1"
    <<"M","S","G","O","U","T","-","N","M","E","A","_","I","D","_","G","G","A","_","U","A","R","T","2">>,  \* 78 "MSGOUT-NMEA_ID_GGA_UART2"
    <<"M","S","G","O","U","T","-","N","M","E","A","_","I","D","_","G","G","A","_","U","S","B">>,  \* 79 "MSGOUT-NMEA_ID_GGA_USB"
    <<"M","S","G","O","U","T","-","N","M","E","A","_","I","D","_","G","L","L","_","I","2","C">>,  \* 80 "MSGOUT-NMEA_ID_GLL_I2C"
    <<"M","S","G","O","U","T","-","N","M","E","A","_","I","D","_","G","L","L","_","S","P","I">>,  \* 81 "MSGOUT-NMEA_ID_GLL_SPI"
    <<"M","S","G","O","U","T","-","N","M","E","A","_","I","D","_","G","L","L","_","U","A","R","T","1">>,  \* 82 "MSGOUT-NMEA_ID_GLL_UART1"
    <<"M","S","G","O","U","T","-","N","M","E","A","_","I","D","_","G","L","L","_","U","A","R","T","2">>,  \* 83 "MSGOUT-NMEA_ID_GLL_UART2"
    <<"M","S","G","O","U","T","-","N","M","E","A","_","I","D","_","G","L","L","_","U","S","B">>,  \* 84 "MSGOUT-NMEA_ID_GLL_USB"
    <<"M","S","G","O","U","T","-","N","M","E","A","_","I","D","_","G","N","S","_","I","2","C">>,  \* 85 "MSGOUT-NMEA_ID_GNS_I2C"
    <<"M","S","G","O","U","T","-","N","M","E","A","_","I","D","_","G","N","S","_","S","P","I">>,  \* 86 "MSGOUT-NMEA_ID_GNS_SPI"
    <<"M","S","G","O","U","T","-","N","M","E","A","_","I","D","_","G","N","S","_","U","A","R","T","1">>,  \* 87 "MSGOUT-NMEA_ID_GNS_UART1"
    <<"M","S","G","O","U","T","-","N","M","E","A","_","I","D","_","G","N","S","_","U","A","R","T","2">>,  \* 88 "MSGOUT-NMEA_ID_GNS_UART2"
    <<"M","S","G","O","U","T","-","N","M","E","A","_","I","D","_","G","N","S","_","U","S","B">>,  \* 89 "MSGOUT-NMEA_ID_GNS_USB"
    <<"M","S","G","O","U","T","-","N","M","E","A","_","I","D","_","G","R","S","_","I","2","C">>,  \* 90 "MSGOUT-NMEA_ID_GRS_I2C"
    <<"M","S","G","O","U","T","-","N","M","E","A","_","I","D","_","G","R","S","_","S","P","I">>,  \* 91 "MSGOUT-NMEA_ID_GRS_SPI"
    <<"M","S","G","O","U","T","-","N","M","E","A","_","I","D","_","G","R","S","_","U","A","R","T","1">>,  \* 92 "MSGOUT-NMEA_ID_GRS_UART1"
    <<"M","S","G","O","U","T","-","N","M","E","A","_","I","D","_","G","R","S","_","U","A","R","T","2">>,  \* 93 "MSGOUT-NMEA_ID_GRS_UART2"
    <<"M","S","G","O","U","T","-","N","M","E","A","_","I","D","_","G","R","S","_","U","S","B">>,  \* 94 "MSGOUT-NMEA_ID_GRS_USB"
    <<"M","S","G","O","U","T","-","N","M","E","A","_","I","D","_","G","S","A","_","I","2","C">>,  \* 95 "MSGOUT-NMEA_ID_GSA_I2C"
    <<"M","S","G","O","U","T","-","N","M","E","A","_","I","D","_","G","S","A","_","S","P","I">>,  \* 96 "MSGOUT-NMEA_ID_GSA_SPI"
    <<"M","S","G","O","U","T","-","N","M","E","A","_","I","D","_","G","S","A","_","U","A","R","T","1">>,  \* 97 "MSGOUT-NMEA_ID_GSA_UART1"
    <<"M","S","G","O","U","T","-","N","M","E","A","_","I","D","_","G","S","A","_","U","A","R","T","2">>,  \* 98 "MSGOUT-NMEA_ID_GSA_UART2"
    <<"M","S","G","O","U","T","-","N","M","E","A","_","I","D","_","G","S","A","_","U","S","B">>,  \* 99 "MSGOUT-NMEA_ID_GSA_USB"
    <<"M","S","G","O","U","T","-","N","M","E","A","_","I","D","_","G","S","T","_","I","2","C">>,  \* 100 "MSGOUT-NMEA_ID_GST_I2C"
    <<"M","S","G","O","U","T","-","N","M","E","A","_","I","D","_","G","S","T","_","S","P","I">>,  \* 101 "MSGOUT-NMEA_ID_GST_SPI"
    <<"M","S","G","O","U","T","-","N","M","E","A","_","I","D","_","G","S","T","_","U","A","R","T","1">>,  \* 102 "MSGOUT-NMEA_ID_GST_UART1"
    <<"M","S","G","O","U","T","-","N","M","E","A","_","I","D","_","G","S","T","_","U","A","R","T","2">>,  \* 103 "MSGOUT-NMEA_ID_GST_UART2"
    <<"M","S","G","O","U","T","-","N","M","E","A","_","I","D","_","G","S","T","_","U","S","B">>,  \* 104 "MSGOUT-NMEA_ID_GST_USB"
    <<"M","S","G","O","U","T","-","N","M","E","A","_","I","D","_","G","S","V","_","I","2","C">>,  \* 105 "MSGOUT-NMEA_ID_GSV_I2C"
    <<"M","S","G","O","U","T","-","N","M","E","A","_","I","D","_","G","S","V","_","S","P","I">>,  \* 106 "MSGOUT-NMEA_ID_GSV_SPI"
    <<"M","S","G","O","U","T","-","N","M","E","A","_","I","D","_","G","S","V","_","U","A","R","T","1">>,  \* 107 "MSGOUT-NMEA_ID_GSV_UART1"
    <<"M","S","G","O","U","T","-","N","M","E","A","_","I","D","_","G","S","V","_","U","A","R","T","2">>,  \* 108 "MSGOUT-NMEA_ID_GSV_UART2"
    <<"M","S","G","O","U","T","-","N","M","E","A","_","I","D","_","G","S","V","_","U","S","B">>,  \* 109 "MSGOUT-NMEA_ID_GSV_USB"
    <<"M","S","G","O","U","T","-","N","M","E","A","_","I","D","_","R","M","C","_","I","2","C">>,  \* 110 "MSGOUT-NMEA_ID_RMC_I2C"
    <<"M","S","G","O","U","T","-","N","M","E","A","_","I","D","_","R","M","C","_","S","P","I">>,  \* 111 "MSGOUT-NMEA_ID_RMC_SPI"
    <<"M","S","G","O","U","T","-","N","M","E","A","_","I","D","_","R","M","C","_","U","A","R","T","1">>,  \* 112 "MSGOUT-NMEA_ID_RMC_UART1"
    <<"M","S","G","O","U","T","-","N","M","E","A","_","I","D","_","R","M","C","_","U","A","R","T","2">>,  \* 113 "MSGOUT-NMEA_ID_RMC_UART2"
    <<"M","S","G","O","U","T","-","N","M","E","A","_","I","D","_","R","M","C","_","U","S","B">>,  \* 114 "MSGOUT-NMEA_ID_RMC_USB"
    <<"M","S","G","O","U","T","-","N","M","E","A","_","I","D","_","V","L","W","_","I","2","C">>,  \* 115 "MSGOUT-NMEA_ID_VLW_I2C"
    <<"M","S","G","O","U","T","-","N","M","E","A","_","I","D","_","V","L","W","_","S","P","I">>,  \* 116 "MSGOUT-NMEA_ID_VLW_SPI"
    <<"M","S","G","O","U","T","-","N","M","E","A","_","I","D","_","V","L","W","_","U","A","R","T","1">>,  \* 117 "MSGOUT-NMEA_ID_VLW_UART1"
    <<"M","S","G","O","U","T","-","N","M","E","A","_","I","D","_","V","L","W","_","U","A","R","T","2">>,  \* 118 "MSGOUT-NMEA_ID_VLW_UART2"
    <<"M","S","G","O","U","T","-","N","M","E","A","_","I","D","_","V","L","W","_","U","S","B">>,  \* 119 "MSGOUT-NMEA_ID_VLW_USB"
    <<"M","S","G","O","U","T","-","N","M","E","A","_","I","D","_","V","T","G","_","I","2","C">>,  \* 120 "MSGOUT-NMEA_ID_VTG_I2C"
    <<"M","S","G","O","U","T","-","N","M","E","A","_","I","D","_","V","T","G","_","S","P","I">>,  \* 121 "MSGOUT-NMEA_ID_VTG_SPI"
    <<"M","S","G","O","U","T","-","N","M","E","A","_","I","D","_","V","T","G","_","U","A","R","T","1">>,  \* 122 "MSGOUT-NMEA_ID_VTG_UART1"
    <<"M","S","G","O","U","T","-","N","M","E","A","_","I","D","_","V","T","G","_","U","A","R","T","2">>,  \* 123 "MSGOUT-NMEA_ID_VTG_UART2"
    <<"M","S","G","O","U","T","-","N","M","E","A","_","I","D","_","V","T","G","_","U","S","B">>,  \* 124 "MSGOUT-NMEA_ID_VTG_USB"
    <<"M","S","G","O","U","T","-","N","M","E","A","_","I","D","_","Z","D","A","_","I","2","C">>,  \* 125 "MSGOUT-NMEA_ID_ZDA_I2C"
    <<"M","S","G","O","U","T","-","N","M","E","A","_","I","D","_","Z","D","A","_","S","P","I">>,  \* 126 "MSGOUT-NMEA_ID_ZDA_SPI"
    <<"M","S","G","O","U","T","-","N","M","E","A","_","I","D","_","Z","D","A","_","U","A","R","T","1">>,  \* 127 "MSGOUT-NMEA_ID_ZDA_UART1"
    <<"M","S","G","O","U","T","-","N","M","E","A","_","I","D","_","Z","D","A","_","U","A","R","T","2">>,  \* 128 "MSGOUT-NMEA_ID_ZDA_UART2"
    <<"M","S","G","O","U","T","-","N","M","E","A","_","I","D","_","Z","D","A","_","U","S","B">>,  \* 129 "MSGOUT-NMEA_ID_ZDA_USB"
    <<"M","S","G","O","U","T","-","P","U","B","X","_","I","D","_","P","O","L","Y","P","_","I","2","C">>,  \* 130 "MSGOUT-PUBX_ID_POLYP_I2C"
    <<"M","S","G","O","U","T","-","P","U","B","X","_","I","D","_","P","O","L","Y","P","_","S","P","I">>,  \* 131 "MSGOUT-PUBX_ID_POLYP_SPI"
    <<"M","S","G","O","U","T","-","P","U","B","X","_","I","D","_","P","O","L","Y","P","_","U","A","R","T","1">>,  \* 132 "MSGOUT-PUBX_ID_POLYP_UART1"
    <<"M","S","G","O","U","T","-","P","U","B","X","_","I","D","_","P","O","L","Y","P","_","U","A","R","T","2">>,  \* 133 "MSGOUT-PUBX_ID_POLYP_UART2"
    <<"M","S","G","O","U","T","-","P","U","B","X","_","I","D","_","P","O","L","Y","P","_","U","S","B">>,  \* 134 "MSGOUT-PUBX_ID_POLYP_USB"
    <<"M","S","G","O","U","T","-","P","U","B","X","_","I","D","_","P","O","L","Y","S","_","I","2","C">>,  \* 135 "MSGOUT-PUBX_ID_POLYS_I2C"
    <<"M","S","G","O","U","T","-","P","U","B","X","_","I","D","_","P","O","L","Y","S","_","S","P","I">>,  \* 136 "MSGOUT-PUBX_ID_POLYS_SPI"
    <<"M","S","G","O","U","T","-","P","U","B","X","_","I","D","_","P","O","L","Y","S","_","U","A","R","T","1">>,  \* 137 "MSGOUT-PUBX_ID_POLYS_UART1"
    <<"M","S","G","O","U","T","-","P","U","B","X","_","I","D","_","P","O","L","Y","S","_","U","A","R","T","2">>,  \* 138 "MSGOUT-PUBX_ID_POLYS_UART2"
    <<"M","S","G","O","U","T","-","P","U","B","X","_","I","D","_","P","O","L","Y","S","_","U","S","B">>,  \* 139 "MSGOUT-PUBX_ID_POLYS_USB"
    <<"M","S","G","O","U","T","-","P","U","B","X","_","I","D","_","P","O","L","Y","T","_","I","2","C">>,  \* 140 "MSGOUT-PUBX_ID_POLYT_I2C"
    <<"M","S","G","O","U","T","-","P","U","B","X","_","I","D","_","P","O","L","Y","T","_","S","P","I">>,  \* 141 "MSGOUT-PUBX_ID_POLYT_SPI"
    <<"M","S","G","O","U","T","-","P","U","B","X","_","I","D","_","P","O","L","Y","T","_","U","A","R","T","1">>,  \* 142 "MSGOUT-PUBX_ID_POLYT_UART1"
    <<"M","S","G","O","U","T","-","P","U","B","X","_","I","D","_","P","O","L","Y","T","_","U","A","R","T","2">>,  \* 143 "MSGOUT-PUBX_ID_POLYT_UART2"
    <<"M","S","G","O","U","T","-","P","U","B","X","_","I","D","_","P","O","L","Y","T","_","U","S","B">>,  \* 144 "MSGOUT-PUBX_ID_POLYT_USB"
    <<"M","S","G","O","U","T","-","R","T","C","M","_","3","X","_","T","Y","P","E","1","0","0","5","_","I","2","C">>,  \* 145 "MSGOUT-RTCM_3X_TYPE1005_I2C"
    <<"M","S","G","O","U","T","-","R","T","C","M","_","3","X","_","T","Y","P","E","1","0","0","5","_","S","P","I">>,  \* 146 "MSGOUT-RTCM_3X_TYPE1005_SPI"
    <<"M","S","G","O","U","T","-","R","T","C","M","_","3","X","_","T","Y","P","E","1","0","0","5","_","U","A","R","T","1">>,  \* 147 "MSGOUT-RTCM_3X_TYPE1005_UART1"
    <<"M","S","G","O","U","T","-","R","T","C","M","_","3","X","_","T","Y","P","E","1","0","0","5","_","U","A","R","T","2">>,  \* 148 "MSGOUT-RTCM_3X_TYPE1005_UART2"
    <<"M","S","G","O","U","T","-","R","T","C","M","_","3","X","_","T","Y","P","E","1","0","0","5","_","U","S","B">>,  \* 149 "MSGOUT-RTCM_3X_TYPE1005_USB"
    <<"M","S","G","O","U","T","-","R","T","C","M","_","3","X","_","T","Y","P","E","1","0","7","4","_","I","2","C">>,  \* 150 "MSGOUT-RTCM_3X_TYPE1074_I2C"
    <<"M","S","G","O","U","T","-","R","T","C","M","_","3","X","_","T","Y","P","E","1","0","7","4","_","S","P","I">>,  \* 151 "MSGOUT-RTCM_3X_TYPE1074_SPI"
    <<"M","S","G","O","U","T","-","R","T","C","M","_","3","X","_","T","Y","P","E","1","0","7","4","_","U","A","R","T","1">>,  \* 152 "MSGOUT-RTCM_3X_TYPE1074_UART1"
    <<"M","S","G","O","U","T","-","R","T","C","M","_","3","X","_","T","Y","P","E","1","0","7","4","_","U","A","R","T","2">>,  \* 153 "MSGOUT-RTCM_3X_TYPE1074_UART2"
    <<"M","S","G","O","U","T","-","R","T","C","M","_","3","X","_","T","Y","P","E","1","0","7","4","_","U","S","B">>,  \* 154 "MSGOUT-RTCM_3X_TYPE1074_USB"
    <<"M","S","G","O","U","T","-","R","T","C","M","_","3","X","_","T","Y","P","E","1","0","7","7","_","I","2","C">>,  \* 155 "MSGOUT-RTCM_3X_TYPE1077_I2C"
    <<"M","S","G","O","U","T","-","R","T","C","M","_","3","X","_","T","Y","P","E","1","0","7","7","_","S","P","I">>,  \* 156 "MSGOUT-RTCM_3X_TYPE1077_SPI"
    <<"M","S","G","O","U","T","-","R","T","C","M","_","3","X","_","T","Y","P","E","1","0","7","7","_","U","A","R","T","1">>,  \* 157 "MSGOUT-RTCM_3X_TYPE1077_UART1"
    <<"M","S","G","O","U","T","-","R","T","C","M","_","3","X","_","T","Y","P","E","1","0","7","7","_","U","A","R","T","2">>,  \* 158 "MSGOUT-RTCM_3X_TYPE1077_UART2"
    <<"M","S","G","O","U","T","-","R","T","C","M","_","3","X","_","T","Y","P","E","1","0","7","7","_","U","S","B">>,  \* 159 "MSGOUT-RTCM_3X_TYPE1077_USB"
    <<"M","S","G","O","U","T","-","R","T","C","M","_","3","X","_","T","Y","P","E","1","0","8","7","_","I","2","C">>,  \* 160 "MSGOUT-RTCM_3X_TYPE1087_I2C"
    <<"M","S","G","O","U","T","-","R","T","C","M","_","3","X","_","T","Y","P","E","1","0","8","4","_","S","P","I">>,  \* 161 "MSGOUT-RTCM_3X_TYPE1084_SPI"
    <<"M","S","G","O","U","T","-","R","T","C","M","_","3","X","_","T","Y","P","E","1","0","8","4","_","U","A","R","T","1">>,  \* 162 "MSGOUT-RTCM_3X_TYPE1084_UART1"
    <<"M","S","G","O","U","T","-","R","T","C","M","_","3","X","_","T","Y","P","E","1","0","8","4","_","U","A","R","T","2">>,  \* 163 "MSGOUT-RTCM_3X_TYPE1084_UART2"
    <<"M","S","G","O","U","T","-","R","T","C","M","_","3","X","_","T","Y","P","E","1","0","8","4","_","U","S","B">>,  \* 164 "MSGOUT-RTCM_3X_TYPE1084_USB"
    <<"M","S","G","O","U","T","-","R","T","C","M","_","3","X","_","T","Y","P","E","1","0","8","7","_","S","P","I">>,  \* 165 "MSGOUT-RTCM_3X_TYPE1087_SPI"
    <<"M","S","G","O","U","T","-","R","T","C","M","_","3","X","_","T","Y","P","E","1","0","8","7","_","U","A","R","T","1">>,  \* 166 "MSGOUT-RTCM_3X_TYPE1087_UART1"
    <<"M","S","G","O","U","T","-","R","T","C","M","_","3","X","_","T","Y","P","E","1","0","8","7","_","U","A","R","T","2">>,  \* 167 "MSGOUT-RTCM_3X_TYPE1087_UART2"
    <<"M","S","G","O","U","T","-","R","T","C","M","_","3","X","_","T","Y","P","E","1","0","8","7","_","U","S","B">>,  \* 168 "MSGOUT-RTCM_3X_TYPE1087_USB"
    <<"M","S","G","O","U","T","-","R","T","C","M","_","3","X","_","T","Y","P","E","1","0","9","4","_","I","2","C">>,  \* 169 "MSGOUT-RTCM_3X_TYPE1094_I2C"
    <<"M","S","G","O","U","T","-","R","T","C","M","_","3","X","_","T","Y","P","E","1","0","9","4","_","S","P","I">>,  \* 170 "MSGOUT-RTCM_3X_TYPE1094_SPI"
    <<"M","S","G","O","U","T","-","R","T","C","M","_","3","X","_","T","Y","P","E","1","0","9","4","_","U","A","R","T","1">>,  \* 171 "MSGOUT-RTCM_3X_TYPE1094_UART1"
    <<"M","S","G","O","U","T","-","R","T","C","M","_","3","X","_","T","Y","P","E","1","0","9","4","_","U","A","R","T","2">>,  \* 172 "MSGOUT-RTCM_3X_TYPE1094_UART2"
    <<"M","S","G","O","U","T","-","R","T","C","M","_","3","X","_","T","Y","P","E","1","0","9","4","_","U","S","B">>,  \* 173 "MSGOUT-RTCM_3X_TYPE1094_USB"
    <<"M","S","G","O","U","T","-","R","T","C","M","_","3","X","_","T","Y","P","E","1","0","9","7","_","I","2","C">>,  \* 174 "MSGOUT-RTCM_3X_TYPE1097_I2C"
    <<"M","S","G","O","U","T","-","R","T","C","M","_","3","X","_","T","Y","P","E","1","0","9","7","_","S","P","I">>,  \* 175 "MSGOUT-RTCM_3X_TYPE1097_SPI"
    <<"M","S","G","O","U","T","-","R","T","C","M","_","3","X","_","T","Y","P","E","1","0","9","7","_","U","A","R","T","1">>,  \* 176 "MSGOUT-RTCM_3X_TYPE1097_UART1"
    <<"M","S","G","O","U","T","-","R","T","C","M","_","3","X","_","T","Y","P","E","1","0","9","7","_","U","A","R","T","2">>,  \* 177 "MSGOUT-RTCM_3X_TYPE1097_UART2"
    <<"M","S","G","O","U","T","-","R","T","C","M","_","3","X","_","T","Y","P","E","1","0","9","7","_","U","S","B">>,  \* 178 "MSGOUT-RTCM_3X_TYPE1097_USB"
    <<"M","S","G","O","U","T","-","R","T","C","M","_","3","X","_","T","Y","P","E","1","1","2","4","_","I","2","C">>,  \* 179 "MSGOUT-RTCM_3X_TYPE1124_I2C"
    <<"M","S","G","O","U","T","-","R","T","C","M","_","3","X","_","T","Y","P","E","1","1","2","4","_","S","P","I">>,  \* 180 "MSGOUT-RTCM_3X_TYPE1124_SPI"
    <<"M","S","G","O","U","T","-","R","T","C","M","_","3","X","_","T","Y","P","E","1","1","2","4","_","U","A","R","T","1">>,  \* 181 "MSGOUT-RTCM_3X_TYPE1124_UART1"
    <<"M","S","G","O","U","T","-","R","T","C","M","_","3","X","_","T","Y","P","E","1","1","2","4","_","U","A","R","T","2">>,  \* 182 "MSGOUT-RTCM_3X_TYPE1124_UART2"
    <<"M","S","G","O","U","T","-","R","T","C","M","_","3","X","_","T","Y","P","E","1","1","2","4","_","U","S","B">>,  \* 183 "MSGOUT-RTCM_3X_TYPE1124_USB"
    <<"M","S","G","O","U","T","-","R","T","C","M","_","3","X","_","T","Y","P","E","1","1","2","7","_","I","2","C">>,  \* 184 "MSGOUT-RTCM_3X_TYPE1127_I2C"
    <<"M","S","G","O","U","T","-","R","T","C","M","_","3","X","_","T","Y","P","E","1","1","2","7","_","S","P","I">>,  \* 185 "MSGOUT-RTCM_3X_TYPE1127_SPI"
    <<"M","S","G","O","U","T","-","R","T","C","M","_","3","X","_","T","Y","P","E","1","1","2","7","_","U","A","R","T","1">>,  \* 186 "MSGOUT-RTCM_3X_TYPE1127_UART1"
    <<"M","S","G","O","U","T","-","R","T","C","M","_","3","X","_","T","Y","P","E","1","1","2","7","_","U","A","R","T","2">>,  \* 187 "MSGOUT-RTCM_3X_TYPE1127_UART2"
    <<"M","S","G","O","U","T","-","R","T","C","M","_","3","X","_","T","Y","P","E","1","1","2","7","_","U","S","B">>,  \* 188 "MSGOUT-RTCM_3X_TYPE1127_USB"
    <<"M","S","G","O","U","T","-","R","T","C","M","_","3","X","_","T","Y","P","E","1","2","3","0","_","I","2","C">>,  \* 189 "MSGOUT-RTCM_3X_TYPE1230_I2C"
    <<"M","S","G","O","U","T","-","R","T","C","M","_","3","X","_","T","Y","P","E","1","2","3","0","_","S","P","I">>,  \* 190 "MSGOUT-RTCM_3X_TYPE1230_SPI"
    <<"M","S","G","O","U","T","-","R","T","C","M","_","3","X","_","T","Y","P","E","1","2","3","0","_","U","A","R","T","1">>,  \* 191 "MSGOUT-RTCM_3X_TYPE1230_UART1"
    <<"M","S","G","O","U","T","-","R","T","C","M","_","3","X","_","T","Y","P","E","1","2","3","0","_","U","A","R","T","2">>,  \* 192 "MSGOUT-RTCM_3X_TYPE1230_UART2"
    <<"M","S","G","O","U","T","-","R","T","C","M","_","3","X","_","T","Y","P","E","1","2","3","0","_","U","S","B">>,  \* 193 "MSGOUT-RTCM_3X_TYPE1230_USB"
    <<"M","S","G","O","U","T","-","R","T","C","M","_","3","X","_","T","Y","P","E","4","0","7","2","_","0","_","I","2","C">>,  \* 194 "MSGOUT-RTCM_3X_TYPE4072_0_I2C"
    <<"M","S","G","O","U","T","-","R","T","C","M","_","3","X","_","T","Y","P","E","4","0","7","2","_","0","_","S","P","I">>,  \* 195 "MSGOUT-RTCM_3X_TYPE4072_0_SPI"
    <<"M","S","G","O","U","T","-","R","T","C","M","_","3","X","_","T","Y","P","E","4","0","7","2","_","0","_","U","A","R","T","1">>,  \* 196 "MSGOUT-RTCM_3X_TYPE4072_0_UART1"
    <<"M","S","G","O","U","T","-","R","T","C","M","_","3","X","_","T","Y","P","E","4","0","7","2","_","0","_","U","A","R","T","2">>,  \* 197 "MSGOUT-RTCM_3X_TYPE4072_0_UART2"
    <<"M","S","G","O","U","T","-","R","T","C","M","_","3","X","_","T","Y","P","E","4","0","7","2","_","0","_","U","S","B">>,  \* 198 "MSGOUT-RTCM_3X_TYPE4072_0_USB"
    <<"M","S","G","O","U","T","-","R","T","C","M","_","3","X","_","T","Y","P","E","4","0","7","2","_","1","_","I","2","C">>,  \* 199 "MSGOUT-RTCM_3X_TYPE4072_1_I2C"
    <<"M","S","G","O","U","T","-","R","T","C","M","_","3","X","_","T","Y","P","E","4","0","7","2","_","1","_","S","P","I">>,  \* 200 "MSGOUT-RTCM_3X_TYPE4072_1_SPI"
    <<"M","S","G","O","U","T","-","R","T","C","M","_","3","X","_","T","Y","P","E","4","0","7","2","_","1","_","U","A","R","T","1">>,  \* 201 "MSGOUT-RTCM_3X_TYPE4072_1_UART1"
    <<"M","S","G","O","U","T","-","R","T","C","M","_","3","X","_","T","Y","P","E","4","0","7","2","_","1","_","U","A","R","T","2">>,  \* 202 "MSGOUT-RTCM_3X_TYPE4072_1_UART2"
    <<"M","S","G","O","U","T","-","R","T","C","M","_","3","X","_","T","Y","P","E","4","0","7","2","_","1","_","U","S","B">>,  \* 203 "MSGOUT-RTCM_3X_TYPE4072_1_USB"
    <<"M","S","G","O","U","T","-","U","B","X","_","L","O","G","_","I","N","F","O","_","I","2","C">>,  \* 204 "MSGOUT-UBX_LOG_INFO_I2C"
    <<"M","S","G","O","U","T","-","U","B","X","_","L","O","G","_","I","N","F","O","_","S","P","I">>,  \* 205 "MSGOUT-UBX_LOG_INFO_SPI"
    <<"M","S","G","O","U","T","-","U","B","X","_","L","O","G","_","I","N","F","O","_","U","A","R","T","1">>,  \* 206 "MSGOUT-UBX_LOG_INFO_UART1"
    <<"M","S","G","O","U","T","-","U","B","X","_","L","O","G","_","I","N","F","O","_","U","A","R","T","2">>,  \* 207 "MSGOUT-UBX_LOG_INFO_UART2"
    <<"M","S","G","O","U","T","-","U","B","X","_","L","O","G","_","I","N","F","O","_","U","S","B">>,  \* 208 "MSGOUT-UBX_LOG_INFO_USB"
    <<"M","S","G","O","U","T","-","U","B","X","_","M","O","N","_","C","O","M","M","S","_","I","2","C">>,  \* 209 "MSGOUT-UBX_MON_COMMS_I2C"
    <<"M","S","G","O","U","T","-","U","B","X","_","M","O","N","_","C","O","M","M","S","_","S","P","I">>,  \* 210 "MSGOUT-UBX_MON_COMMS_SPI"
    <<"M","S","G","O","U","T","-","U","B","X","_","M","O","N","_","C","O","M","M","S","_","U","A","R","T","1">>,  \* 211 "MSGOUT-UBX_MON_COMMS_UART1"
    <<"M","S","G","O","U","T","-","U","B","X","_","M","O","N","_","C","O","M","M","S","_","U","A","R","T","2">>,  \* 212 "MSGOUT-UBX_MON_COMMS_UART2"
    <<"M","S","G","O","U","T","-","U","B","X","_","M","O","N","_","C","O","M","M","S","_","U","S","B">>,  \* 213 "MSGOUT-UBX_MON_COMMS_USB"
    <<"M","S","G","O","U","T","-","U","B","X","_","M","O","N","_","H","W","2","_","I","2","C">>,  \* 214 "MSGOUT-UBX_MON_HW2_I2C"
    <<"M","S","G","O","U","T","-","U","B","X","_","M","O","N","_","H","W","2","_","S","P","I">>,  \* 215 "MSGOUT-UBX_MON_HW2_SPI"
    <<"M","S","G","O","U","T","-","U","B","X","_","M","O","N","_","H","W","2","_","U","A","R","T","1">>,  \* 216 "MSGOUT-UBX_MON_HW2_UART1"
    <<"M","S","G","O","U","T","-","U","B","X","_","M","O","N","_","H","W","2","_","U","A","R","T","2">>,  \* 217 "MSGOUT-UBX_MON_HW2_UART2"
    <<"M","S","G","O","U","T","-","U","B","X","_","M","O","N","_","H","W","2","_","U","S","B">>,  \* 218 "MSGOUT-UBX_MON_HW2_USB"
    <<"M","S","G","O","U","T","-","U","B","X","_","M","O","N","_","H","W","3","_","I","2","C">>,  \* 219 "MSGOUT-UBX_MON_HW3_I2C"
    <<"M","S","G","O","U","T","-","U","B","X","_","M","O","N","_","H","W","3","_","S","P","I">>,  \* 220 "MSGOUT-UBX_MON_HW3_SPI"
    <<"M","S","G","O","U","T","-","U","B","X","_","M","O","N","_","H","W","3","_","U","A","R","T","1">>,  \* 221 "MSGOUT-UBX_MON_HW3_UART1"
    <<"M","S","G","O","U","T","-","U","B","X","_","M","O","N","_","H","W","3","_","U","A","R","T","2">>,  \* 222 "MSGOUT-UBX_MON_HW3_UART2"
    <<"M","S","G","O","U","T","-","U","B","X","_","M","O","N","_","H","W","3","_","U","S","B">>,  \* 223 "MSGOUT-UBX_MON_HW3_USB"
    <<"M","S","G","O","U","T","-","U","B","X","_","M","O","N","_","H","W","_","I","2","C">>,  \* 224 "MSGOUT-UBX_MON_HW_I2C"
    <<"M","S","G","O","U","T","-","U","B","X","_","M","O","N","_","H","W","_","S","P","I">>,  \* 225 "MSGOUT-UBX_MON_HW_SPI"
    <<"M","S","G","O","U","T","-","U","B","X","_","M","O","N","_","H","W","_","U","A","R","T","1">>,  \* 226 "MSGOUT-UBX_MON_HW_UART1"
    <<"M","S","G","O","U","T","-","U","B","X","_","M","O","N","_","H","W","_","U","A","R","T","2">>,  \* 227 "MSGOUT-UBX_MON_HW_UART2"
    <<"M","S","G","O","U","T","-","U","B","X","_","M","O","N","_","H","W","_","U","S","B">>,  \* 228 "MSGOUT-UBX_MON_HW_USB"
    <<"M","S","G","O","U","T","-","U","B","X","_","M","O","N","_","I","O","_","I","2","C">>,  \* 229 "MSGOUT-UBX_MON_IO_I2C"
    <<"M","S","G","O","U","T","-","U","B","X","_","M","O","N","_","I","O","_","S","P","I">>,  \* 230 "MSGOUT-UBX_MON_IO_SPI"
    <<"M","S","G","O","U","T","-","U","B","X","_","M","O","N","_","I","O","_","U","A","R","T","1">>,  \* 231 "MSGOUT-UBX_MON_IO_UART1"
    <<"M","S","G","O","U","T","-","U","B","X","_","M","O","N","_","I","O","_","U","A","R","T","2">>,  \* 232 "MSGOUT-UBX_MON_IO_UART2"
    <<"M","S","G","O","U","T","-","U","B","X","_","M","O","N","_","I","O","_","U","S","B">>,  \* 233 "MSGOUT-UBX_MON_IO_USB"
    <<"M","S","G","O","U","T","-","U","B","X","_","M","O","N","_","M","S","G","P","P","_","I","2","C">>,  \* 234 "MSGOUT-UBX_MON_MSGPP_I2C"
    <<"M","S","G","O","U","T","-","U","B","X","_","M","O","N","_","M","S","G","P","P","_","S","P","I">>,  \* 235 "MSGOUT-UBX_MON_MSGPP_SPI"
    <<"M","S","G","O","U","T","-","U","B","X","_","M","O","N","_","M","S","G","P","P","_","U","A","R","T","1">>,  \* 236 "MSGOUT-UBX_MON_MSGPP_UART1"
    <<"M","S","G","O","U","T","-","U","B","X","_","M","O","N","_","M","S","G","P","P","_","U","A","R","T","2">>,  \* 237 "MSGOUT-UBX_MON_MSGPP_UART2"
    <<"M","S","G","O","U","T","-","U","B","X","_","M","O","N","_","M","S","G","P","P","_","U","S","B">>,  \* 238 "MSGOUT-UBX_MON_MSGPP_USB"
    <<"M","S","G","O","U","T","-","U","B","X","_","M","O","N","_","R","F","_","I","2","C">>,  \* 239 "MSGOUT-UBX_MON_RF_I2C"
    <<"M","S","G","O","U","T","-","U","B","X","_","M","O","N","_","R","F","_","S","P","I">>,  \* 240 "MSGOUT-UBX_MON_RF_SPI"
    <<"M","S","G","O","U","T","-","U","B","X","_","M","O","N","_","R","F","_","U","A","R","T","1">>,  \* 241 "MSGOUT-UBX_MON_RF_UART1"
    <<"M","S","G","O","U","T","-","U","B","X","_","M","O","N","_","R","F","_","U","A","R","T","2">>,  \* 242 "MSGOUT-UBX_MON_RF_UART2"
    <<"M","S","G","O","U","T","-","U","B","X","_","M","O","N","_","R","F","_","U","S","B">>,  \* 243 "MSGOUT-UBX_MON_RF_USB"
    <<"M","S","G","O","U","T","-","U","B","X","_","M","O","N","_","R","X","B","U","F","_","I","2","C">>,  \* 244 "MSGOUT-UBX_MON_RXBUF_I2C"
    <<"M","S","G","O","U","T","-","U","B","X","_","M","O","N","_","R","X","B","U","F","_","S","P","I">>,  \* 245 "MSGOUT-UBX_MON_RXBUF_SPI"
    <<"M","S","G","O","U","T","-","U","B","X","_","M","O","N","_","R","X","B","U","F","_","U","A","R","T","1">>,  \* 246 "MSGOUT-UBX_MON_RXBUF_UART1"
    <<"M","S","G","O","U","T","-","U","B","X","_","M","O","N","_","R","X","B","U","F","_","U","A","R","T","2">>,  \* 247 "MSGOUT-UBX_MON_RXBUF_UART2"
    <<"M","S","G","O","U","T","-","U","B","X","_","M","O","N","_","R","X","B","U","F","_","U","S","B">>,  \* 248 "MSGOUT-UBX_MON_RXBUF_USB"
    <<"M","S","G","O","U","T","-","U","B","X","_","M","O","N","_","R","X","R","_","I","2","C">>,  \* 249 "MSGOUT-UBX_MON_RXR_I2C"
    <<"M","S","G","O","U","T","-","U","B","X","_","M","O","N","_","R","X","R","_","S","P","I">>,  \* 250 "MSGOUT-UBX_MON_RXR_SPI"
    <<"M","S","G","O","U","T","-","U","B","X","_","M","O","N","_","R","X","R","_","U","A","R","T","1">>,  \* 251 "MSGOUT-UBX_MON_RXR_UART1"
    <<"M","S","G","O","U","T","-","U","B","X","_","M","O","N","_","R","X","R","_","U","A","R","T","2">>,  \* 252 "MSGOUT-UBX_MON_RXR_UART2"
    <<"M","S","G","O","U","T","-","U","B","X","_","M","O","N","_","R","X","R","_","U","S","B">>,  \* 253 "MSGOUT-UBX_MON_RXR_USB"
    <<"M","S","G","O","U","T","-","U","B","X","_","M","O","N","_","T","X","B","U","F","_","I","2","C">>,  \* 254 "MSGOUT-UBX_MON_TXBUF_I2C"
    <<"M","S","G","O","U","T","-","U","B","X","_","M","O","N","_","T","X","B","U","F","_","S","P","I">>,  \* 255 "MSGOUT-UBX_MON_TXBUF_SPI"
    <<"M","S","G","O","U","T","-","U","B","X","_","M","O","N","_","T","X","B","U","F","_","U","A","R","T","1">>,  \* 256 "MSGOUT-UBX_MON_TXBUF_UART1"
    <<"M","S","G","O","U","T","-","U","B","X","_","M","O","N","_","T","X","B","U","F","_","U","A","R","T","2">>,  \* 257 "MSGOUT-UBX_MON_TXBUF_UART2"
    <<"M","S","G","O","U","T","-","U","B","X","_","M","O","N","_","T","X","B","U","F","_","U","S","B">>,  \* 258 "MSGOUT-UBX_MON_TXBUF_USB"
    <<"M","S","G","O","U","T","-","U","B","X","_","M","O","N","_","T","X","B","U","F","_","I","2","C">>,  \* 259 "MSGOUT-UBX_MON_TXBUF_I2C"
    <<"M","S","G","O","U","T","-","U","B","X","_","M","O","N","_","T","X","B","U","F","_","S","P","I">>,  \* 260 "MSGOUT-UBX_MON_TXBUF_SPI"
    <<"M","S","G","O","U","T","-","U","B","X","_","M","O","N","_","T","X","B","U","F","_","U","A","R","T","1">>,  \* 261 "MSGOUT-UBX_MON_TXBUF_UART1"
    <<"M","S","G","O","U","T","-","U","B","X","_","M","O","N","_","T","X","B","U","F","_","U","A","R","T","2">>,  \* 262 "MSGOUT-UBX_MON_TXBUF_UART2"
    <<"M","S","G","O","U","T","-","U","B","X","_","M","O","N","_","T","X","B","U","F","_","U","S","B">>,  \* 263 "MSGOUT-UBX_MON_TXBUF_USB"
    <<"M","S","G","O","U","T","-","U","B","X","_","N","A","V","_","C","L","O","C","K","_","I","2","C">>,  \* 264 "MSGOUT-UBX_NAV_CLOCK_I2C"
    <<"M","S","G","O","U","T","-","U","B","X","_","N","A","V","_","C","L","O","C","K","_","S","P","I">>,  \* 265 "MSGOUT-UBX_NAV_CLOCK_SPI"
    <<"M","S","G","O","U","T","-","U","B","X","_","N","A","V","_","C","L","O","C","K","_","U","A","R","T","1">>,  \* 266 "MSGOUT-UBX_NAV_CLOCK_UART1"
    <<"M","S","G","O","U","T","-","U","B","X","_","N","A","V","_","C","L","O","C","K","_","U","A","R","T","2">>,  \* 267 "MSGOUT-UBX_NAV_CLOCK_UART2"
    <<"M","S","G","O","U","T","-","U","B","X","_","N","A","V","_","C","L","O","C","K","_","U","S","B">>,  \* 268 "MSGOUT-UBX_NAV_CLOCK_USB"
    <<"M","S","G","O","U","T","-","U","B","X","_","N","A","V","_","D","O","P","_","I","2","C">>,  \* 269 "MSGOUT-UBX_NAV_DOP_I2C"
    <<"M","S","G","O","U","T","-","U","B","X","_","N","A","V","_","D","O","P","_","S","P","I">>,  \* 270 "MSGOUT-UBX_NAV_DOP_SPI"
    <<"M","S","G","O","U","T","-","U","B","X","_","N","A","V","_","D","O","P","_","U","A","R","T","1">>,  \* 271 "MSGOUT-UBX_NAV_DOP_UART1"
    <<"M","S","G","O","U","T","-","U","B","X","_","N","A","V","_","D","O","P","_","U","A","R","T","2">>,  \* 272 "MSGOUT-UBX_NAV_DOP_UART2"
    <<"M","S","G","O","U","T","-","U","B","X","_","N","A","V","_","D","O","P","_","U","S","B">>,  \* 273 "MSGOUT-UBX_NAV_DOP_USB"
    <<"M","S","G","O","U","T","-","U","B","X","_","N","A","V","_","E","O","E","_","I","2","C">>,  \* 274 "MSGOUT-UBX_NAV_EOE_I2C"
    <<"M","S","G","O","U","T","-","U","B","X","_","N","A","V","_","E","O","E","_","S","P","I">>,  \* 275 "MSGOUT-UBX_NAV_EOE_SPI"
    <<"M","S","G","O","U","T","-","U","B","X","_","N","A","V","_","E","O","E","_","U","A","R","T","1">>,  \* 276 "MSGOUT-UBX_NAV_EOE_UART1"
    <<"M","S","G","O","U","T","-","U","B","X","_","N","A","V","_","E","O","E","_","U","A","R","T","2">>,  \* 277 "MSGOUT-UBX_NAV_EOE_UART2"
    <<"M","S","G","O","U","T","-","U","B","X","_","N","A","V","_","E","O","E","_","U","S","B">>,  \* 278 "MSGOUT-UBX_NAV_EOE_USB"
    <<"M","S","G","O","U","T","-","U","B","X","_","N","A","V","_","G","E","O","F","E","N","C","E","_","I","2","C">>,  \* 279 "MSGOUT-UBX_NAV_GEOFENCE_I2C"
    <<"M","S","G","O","U","T","-","U","B","X","_","N","A","V","_","G","E","O","F","E","N","C","E","_","S","P","I">>,  \* 280 "MSGOUT-UBX_NAV_GEOFENCE_SPI"
    <<"M","S","G","O","U","T","-","U","B","X","_","N","A","V","_","G","E","O","F","E","N","C","E","_","U","A","R","T","1">>,  \* 281 "MSGOUT-UBX_NAV_GEOFENCE_UART1"
    <<"M","S","G","O","U","T","-","U","B","X","_","N","A","V","_","G","E","O","F","E","N","C","E","_","U","A","R","T","2">>,  \* 282 "MSGOUT-UBX_NAV_GEOFENCE_UART2"
    <<"M","S","G","O","U","T","-","U","B","X","_","N","A","V","_","G","E","O","F","E","N","C","E","_","U","S","B">>,  \* 283 "MSGOUT-UBX_NAV_GEOFENCE_USB"
    <<"M","S","G","O","U","T","-","U","B","X","_","N","A","V","_","H","P","P","O","S","E","C","E","F","_","I","2","C">>,  \* 284 "MSGOUT-UBX_NAV_HPPOSECEF_I2C"
    <<"M","S","G","O","U","T","-","U","B","X","_","N","A","V","_","H","P","P","O","S","E","C","E","F","_","S","P","I">>,  \* 285 "MSGOUT-UBX_NAV_HPPOSECEF_SPI"
    <<"M","S","G","O","U","T","-","U","B","X","_","N","A","V","_","H","P","P","O","S","E","C","E","F","_","U","A","R","T","1">>,  \* 286 "MSGOUT-UBX_NAV_HPPOSECEF_UART1"
    <<"M","S","G","O","U","T","-","U","B","X","_","N","A","V","_","H","P","P","O","S","E","C","E","F","_","U","A","R","T","2">>,  \* 287 "MSGOUT-UBX_NAV_HPPOSECEF_UART2"
    <<"M","S","G","O","U","T","-","U","B","X","_","N","A","V","_","H","P","P","O","S","E","C","E","F","_","U","S","B">>,  \* 288 "MSGOUT-UBX_NAV_HPPOSECEF_USB"
    <<"M","S","G","O","U","T","-","U","B","X","_","N","A","V","_","H","P","P","O","S","L","L","H","_","I","2","C">>,  \* 289 "MSGOUT-UBX_NAV_HPPOSLLH_I2C"
    <<"M","S","G","O","U","T","-","U","B","X","_","N","A","V","_","H","P","P","O","S","L","L","H","_","S","P","I">>,  \* 290 "MSGOUT-UBX_NAV_HPPOSLLH_SPI"
    <<"M","S","G","O","U","T","-","U","B","X","_","N","A","V","_","H","P","P","O","S","L","L","H","_","U","A","R","T","1">>,  \* 291 "MSGOUT-UBX_NAV_HPPOSLLH_UART1"
    <<"M","S","G","O","U","T","-","U","B","X","_","N","A","V","_","H","P","P","O","S","L","L","H","_","U","A","R","T","2">>,  \* 292 "MSGOUT-UBX_NAV_HPPOSLLH_UART2"
    <<"M","S","G","O","U","T","-","U","B","X","_","N","A","V","_","H","P","P","O","S","L","L","H","_","U","S","B">>,  \* 293 "MSGOUT-UBX_NAV_HPPOSLLH_USB"
    <<"M","S","G","O","U","T","-","U","B","X","_","N","A","V","_","O","D","O","_","I","2","C">>,  \* 294 "MSGOUT-UBX_NAV_ODO_I2C"
    <<"M","S","G","O","U","T","-","U","B","X","_","N","A","V","_","O","D","O","_","S","P","I">>,  \* 295 "MSGOUT-UBX_NAV_ODO_SPI"
    <<"M","S","G","O","U","T","-","U","B","X","_","N","A","V","_","O","D","O","_","U","A","R","T","1">>,  \* 296 "MSGOUT-UBX_NAV_ODO_UART1"
    <<"M","S","G","O","U","T","-","U","B","X","_","N","A","V","_","O","D","O","_","U","A","R","T","2">>,  \* 297 "MSGOUT-UBX_NAV_ODO_UART2"
    <<"M","S","G","O","U","T","-","U","B","X","_","N","A","V","_","O","D","O","_","U","S","B">>,  \* 298 "MSGOUT-UBX_NAV_ODO_USB"
    <<"M","S","G","O","U","T","-","U","B","X","_","N","A","V","_","O","R","B","_","I","2","C">>,  \* 299 "MSGOUT-UBX_NAV_ORB_I2C"
    <<"M","S","G","O","U","T","-","U","B","X","_","N","A","V","_","O","R","B","_","S","P","I">>,  \* 300 "MSGOUT-UBX_NAV_ORB_SPI"
    <<"M","S","G","O","U","T","-","U","B","X","_","N","A","V","_","O","R","B","_","U","A","R","T","1">>,  \* 301 "MSGOUT-UBX_NAV_ORB_UART1"
    <<"M","S","G","O","U","T","-","U","B","X","_","N","A","V","_","O","R","B","_","U","A","R","T","2">>,  \* 302 "MSGOUT-UBX_NAV_ORB_UART2"
    <<"M","S","G","O","U","T","-","U","B","X","_","N","A","V","_","O","R","B","_","U","S","B">>,  \* 303 "MSGOUT-UBX_NAV_ORB_USB"
    <<"M","S","G","O","U","T","-","U","B","X","_","N","A","V","_","P","O","S","E","C","E","F","_","I","2","C">>,  \* 304 "MSGOUT-UBX_NAV_POSECEF_I2C"
    <<"M","S","G","O","U","T","-","U","B","X","_","N","A","V","_","P","O","S","E","C","E","F","_","S","P","I">>,  \* 305 "MSGOUT-UBX_NAV_POSECEF_SPI"
    <<"M","S","G","O","U","T","-","U","B","X","_","N","A","V","_","P","O","S","E","C","E","F","_","U","A","R","T","1">>,  \* 306 "MSGOUT-UBX_NAV_POSECEF_UART1"
    <<"M","S","G","O","U","T","-","U","B","X","_","N","A","V","_","P","O","S","E","C","E","F","_","U","A","R","T","2">>,  \* 307 "MSGOUT-UBX_NAV_POSECEF_UART2"
    <<"M","S","G","O","U","T","-","U","B","X","_","N","A","V","_","P","O","S","E","C","E","F","_","U","S","B">>,  \* 308 "MSGOUT-UBX_NAV_POSECEF_USB"
    <<"M","S","G","O","U","T","-","U","B","X","_","N","A","V","_","P","O","S","L","L","H","_","I","2","C">>,  \* 309 "MSGOUT-UBX_NAV_POSLLH_I2C"
    <<"M","S","G","O","U","T","-","U","B","X","_","N","A","V","_","P","O","S","L","L","H","_","S","P","I">>,  \* 310 "MSGOUT-UBX_NAV_POSLLH_SPI"
    <<"M","S","G","O","U","T","-","U","B","X","_","N","A","V","_","P","O","S","L","L","H","_","U","A","R","T","1">>,  \* 311 "MSGOUT-UBX_NAV_POSLLH_UART1"
    <<"M","S","G","O","U","T","-","U","B","X","_","N","A","V","_","P","O","S","L","L","H","_","U","A","R","T","2">>,  \* 312 "MSGOUT-UBX_NAV_POSLLH_UART2"
    <<"M","S","G","O","U","T","-","U","B","X","_","N","A","V","_","P","O","S","L","L","H","_","U","S","B">>,  \* 313 "MSGOUT-UBX_NAV_POSLLH_USB"
    <<"M","S","G","O","U","T","-","U","B","X","_","N","A","V","_","P","V","T","_","I","2","C">>,  \* 314 "MSGOUT-UBX_NAV_PVT_I2C"
    <<"M","S","G","O","U","T","-","U","B","X","_","N","A","V","_","P","V","T","_","S","P","I">>,  \* 315 "MSGOUT-UBX_NAV_PVT_SPI"
    <<"M","S","G","O","U","T","-","U","B","X","_","N","A","V","_","P","V","T","_","U","A","R","T","1">>,  \* 316 "MSGOUT-UBX_NAV_PVT_UART1"
    <<"M","S","G","O","U","T","-","U","B","X","_","N","A","V","_","P","V","T","_","U","A","R","T","2">>,  \* 317 "MSGOUT-UBX_NAV_PVT_UART2"
    <<"M","S","G","O","U","T","-","U","B","X","_","N","A","V","_","P","V","T","_","U","S","B">>,  \* 318 "MSGOUT-UBX_NAV_PVT_USB"
    <<"M","S","G","O","U","T","-","U","B","X","_","N","A","V","_","R","E","L","P","O","S","N","E","D","_","I","2","C">>,  \* 319 "MSGOUT-UBX_NAV_RELPOSNED_I2C"
    <<"M","S","G","O","U","T","-","U","B","X","_","N","A","V","_","R","E","L","P","O","S","N","E","D","_","S","P","I">>,  \* 320 "MSGOUT-UBX_NAV_RELPOSNED_SPI"
    <<"M","S","G","O","U","T","-","U","B","X","_","N","A","V","_","R","E","L","P","O","S","N","E","D","_","U","A","R","T","1">>,  \* 321 "MSGOUT-UBX_NAV_RELPOSNED_UART1"
    <<"M","S","G","O","U","T","-","U","B","X","_","N","A","V","_","R","E","L","P","O","S","N","E","D","_","U","A","R","T","2">>,  \* 322 "MSGOUT-UBX_NAV_RELPOSNED_UART2"
    <<"M","S","G","O","U","T","-","U","B","X","_","N","A","V","_","R","E","L","P","O","S","N","E","D","_","U","S","B">>,  \* 323 "MSGOUT-UBX_NAV_RELPOSNED_USB"
    <<"M","S","G","O","U","T","-","U","B","X","_","N","A","V","_","S","A","T","_","I","2","C">>,  \* 324 "MSGOUT-UBX_NAV_SAT_I2C"
    <<"M","S","G","O","U","T","-","U","B","X","_","N","A","V","_","S","A","T","_","S","P","I">>,  \* 325 "MSGOUT-UBX_NAV_SAT_SPI"
    <<"M","S","G","O","U","T","-","U","B","X","_","N","A","V","_","S","A","T","_","U","A","R","T","1">>,  \* 326 "MSGOUT-UBX_NAV_SAT_UART1"
    <<"M","S","G","O","U","T","-","U","B","X","_","N","A","V","_","S","A","T","_","U","A","R","T","2">>,  \* 327 "MSGOUT-UBX_NAV_SAT_UART2"
    <<"M","S","G","O","U","T","-","U","B","X","_","N","A","V","_","S","A","T","_","U","S","B">>,  \* 328 "MSGOUT-UBX_NAV_SAT_USB"
    <<"M","S","G","O","U","T","-","U","B","X","_","N","A","V","_","S","B","A","S","_","I","2","C">>,  \* 329 "MSGOUT-UBX_NAV_SBAS_I2C"
    <<"M","S","G","O","U","T","-","U","B","X","_","N","A","V","_","S","B","A","S","_","S","P","I">>,  \* 330 "MSGOUT-UBX_NAV_SBAS_SPI"
    <<"M","S","G","O","U","T","-","U","B","X","_","N","A","V","_","S","B","A","S","_","U","A","R","T","1">>,  \* 331 "MSGOUT-UBX_NAV_SBAS_UART1"
    <<"M","S","G","O","U","T","-","U","B","X","_","N","A","V","_","S","B","A","S","_","U","A","R","T","2">>,  \* 332 "MSGOUT-UBX_NAV_SBAS_UART2"
    <<"M","S","G","O","U","T","-","U","B","X","_","N","A","V","_","S","B","A","S","_","U","S","B">>,  \* 333 "MSGOUT-UBX_NAV_SBAS_USB"
    <<"M","S","G","O","U","T","-","U","B","X","_","N","A","V","_","S","I","G","_","I","2","C">>,  \* 334 "MSGOUT-UBX_NAV_SIG_I2C"
    <<"M","S","G","O","U","T","-","U","B","X","_","N","A","V","_","S","I","G","_","S","P","I">>,  \* 335 "MSGOUT-UBX_NAV_SIG_SPI"
    <<"M","S","G","O","U","T","-","U","B","X","_","N","A","V","_","S","I","G","_","U","A","R","T","1">>,  \* 336 "MSGOUT-UBX_NAV_SIG_UART1"
    <<"M","S","G","O","U","T","-","U","B","X","_","N","A","V","_","S","I","G","_","U","A","R","T","2">>,  \* 337 "MSGOUT-UBX_NAV_SIG_UART2"
    <<"M","S","G","O","U","T","-","U","B","X","_","N","A","V","_","S","I","G","_","U","S","B">>,  \* 338 "MSGOUT-UBX_NAV_SIG_USB"
    <<"M","S","G","O","U","T","-","U","B","X","_","N","A","V","_","S","T","A","T","U","S","_","I","2","C">>,  \* 339 "MSGOUT-UBX_NAV_STATUS_I2C"
    <<"M","S","G","O","U","T","-","U","B","X","_","N","A","V","_","S","T","A","T","U","S","_","S","P","I">>,  \* 340 "MSGOUT-UBX_NAV_STATUS_SPI"
    <<"M","S","G","O","U","T","-","U","B","X","_","N","A","V","_","S","T","A","T","U","S","_","U","A","R","T","1">>,  \* 341 "MSGOUT-UBX_NAV_STATUS_UART1"
    <<"M","S","G","O","U","T","-","U","B","X","_","N","A","V","_","S","T","A","T","U","S","_","U","A","R","T","2">>,  \* 342 "MSGOUT-UBX_NAV_STATUS_UART2"
    <<"M","S","G","O","U","T","-","U","B","X","_","N","A","V","_","S","T","A","T","U","S","_","U","S","B">>,  \* 343 "MSGOUT-UBX_NAV_STATUS_USB"
    <<"M","S","G","O","U","T","-","U","B","X","_","N","A","V","_","S","V","I","N","_","I","2","C">>,  \* 344 "MSGOUT-UBX_NAV_SVIN_I2C"
    <<"M","S","G","O","U","T","-","U","B","X","_","N","A","V","_","S","V","I","N","_","S","P","I">>,  \* 345 "MSGOUT-UBX_NAV_SVIN_SPI"
    <<"M","S","G","O","U","T","-","U","B","X","_","N","A","V","_","S","V","I","N","_","U","A","R","T","1">>,  \* 346 "MSGOUT-UBX_NAV_SVIN_UART1"
    <<"M","S","G","O","U","T","-","U","B","X","_","N","A","V","_","S","V","I","N","_","U","A","R","T","2">>,  \* 347 "MSGOUT-UBX_NAV_SVIN_UART2"
    <<"M","S","G","O","U","T","-","U","B","X","_","N","A","V","_","S","V","I","N","_","U","S","B">>,  \* 348 "MSGOUT-UBX_NAV_SVIN_USB"
    <<"M","S","G","O","U","T","-","U","B","X","_","N","A","V","_","T","I","M","E","B","D","S","_","I","2","C">>,  \* 349 "MSGOUT-UBX_NAV_TIMEBDS_I2C"
    <<"M","S","G","O","U","T","-","U","B","X","_","N","A","V","_","T","I","M","E","B","D","S","_","S","P","I">>,  \* 350 "MSGOUT-UBX_NAV_TIMEBDS_SPI"
    <<"M","S","G","O","U","T","-","U","B","X","_","N","A","V","_","T","I","M","E","B","D","S","_","U","A","R","T","1">>,  \* 351 "MSGOUT-UBX_NAV_TIMEBDS_UART1"
    <<"M","S","G","O","U","T","-","U","B","X","_","N","A","V","_","T","I","M","E","B","D","S","_","U","A","R","T","2">>,  \* 352 "MSGOUT-UBX_NAV_TIMEBDS_UART2"
    <<"M","S","G","O","U","T","-","U","B","X","_","N","A","V","_","T","I","M","E","B","D","S","_","U","S","B">>,  \* 353 "MSGOUT-UBX_NAV_TIMEBDS_USB"
    <<"M","S","G","O","U","T","-","U","B","X","_","N","A","V","_","T","I","M","E","G","A","L","_","I","2","C">>,  \* 354 "MSGOUT-UBX_NAV_TIMEGAL_I2C"
    <<"M","S","G","O","U","T","-","U","B","X","_","N","A","V","_","T","I","M","E","G","A","L","_","S","P","I">>,  \* 355 "MSGOUT-UBX_NAV_TIMEGAL_SPI"
    <<"M","S","G","O","U","T","-","U","B","X","_","N","A","V","_","T","I","M","E","G","A","L","_","U","A","R","T","1">>,  \* 356 "MSGOUT-UBX_NAV_TIMEGAL_UART1"
    <<"M","S","G","O","U","T","-","U","B","X","_","N","A","V","_","T","I","M","E","G","A","L","_","U","A","R","T","2">>,  \* 357 "MSGOUT-UBX_NAV_TIMEGAL_UART2"
    <<"M","S","G","O","U","T","-","U","B","X","_","N","A","V","_","T","I","M","E","G","A","L","_","U","S","B">>,  \* 358 "MSGOUT-UBX_NAV_TIMEGAL_USB"
    <<"M","S","G","O","U","T","-","U","B","X","_","N","A","V","_","T","I","M","E","G","L","O","_","I","2","C">>,  \* 359 "MSGOUT-UBX_NAV_TIMEGLO_I2C"
    <<"M","S","G","O","U","T","-","U","B","X","_","N","A","V","_","T","I","M","E","G","L","O","_","S","P","I">>,  \* 360 "MSGOUT-UBX_NAV_TIMEGLO_SPI"
    <<"M","S","G","O","U","T","-","U","B","X","_","N","A","V","_","T","I","M","E","G","L","O","_","U","A","R","T","1">>,  \* 361 "MSGOUT-UBX_NAV_TIMEGLO_UART1"
    <<"M","S","G","O","U","T","-","U","B","X","_","N","A","V","_","T","I","M","E","G","L","O","_","U","A","R","T","2">>,  \* 362 "MSGOUT-UBX_NAV_TIMEGLO_UART2"
    <<"M","S","G","O","U","T","-","U","B","X","_","N","A","V","_","T","I","M","E","G","L","O","_","U","S","B">>,  \* 363 "MSGOUT-UBX_NAV_TIMEGLO_USB"
    <<"M","S","G","O","U","T","-","U","B","X","_","N","A","V","_","T","I","M","E","G","P","S","_","I","2","C">>,  \* 364 "MSGOUT-UBX_NAV_TIMEGPS_I2C"
    <<"M","S","G","O","U","T","-","U","B","X","_","N","A","V","_","T","I","M","E","G","P","S","_","S","P","I">>,  \* 365 "MSGOUT-UBX_NAV_TIMEGPS_SPI"
    <<"M","S","G","O","U","T","-","U","B","X","_","N","A","V","_","T","I","M","E","G","P","S","_","U","A","R","T","1">>,  \* 366 "MSGOUT-UBX_NAV_TIMEGPS_UART1"
    <<"M","S","G","O","U","T","-","U","B","X","_","N","A","V","_","T","I","M","E","G","P","S","_","U","A","R","T","2">>,  \* 367 "MSGOUT-UBX_NAV_TIMEGPS_UART2"
    <<"M","S","G","O","U","T","-","U","B","X","_","N","A","V","_","T","I","M","E","G","P","S","_","U","S","B">>,  \* 368 "MSGOUT-UBX_NAV_TIMEGPS_USB"
    <<"M","S","G","O","U","T","-","U","B","X","_","N","A","V","_","T","I","M","E","L","S","_","I","2","C">>,  \* 369 "MSGOUT-UBX_NAV_TIMELS_I2C"
    <<"M","S","G","O","U","T","-","U","B","X","_","N","A","V","_","T","I","M","E","L","S","_","S","P","I">>,  \* 370 "MSGOUT-UBX_NAV_TIMELS_SPI"
    <<"M","S","G","O","U","T","-","U","B","X","_","N","A","V","_","T","I","M","E","L","S","_","U","A","R","T","1">>,  \* 371 "MSGOUT-UBX_NAV_TIMELS_UART1"
    <<"M","S","G","O","U","T","-","U","B","X","_","N","A","V","_","T","I","M","E","L","S","_","U","A","R","T","2">>,  \* 372 "MSGOUT-UBX_NAV_TIMELS_UART2"
    <<"M","S","G","O","U","T","-","U","B","X","_","N","A","V","_","T","I","M","E","L","S","_","U","S","B">>,  \* 373 "MSGOUT-UBX_NAV_TIMELS_USB"
    <<"M","S","G","O","U","T","-","U","B","X","_","N","A","V","_","T","I","M","E","U","T","C","_","I","2","C">>,  \* 374 "MSGOUT-UBX_NAV_TIMEUTC_I2C"
    <<"M","S","G","O","U","T","-","U","B","X","_","N","A","V","_","T","I","M","E","U","T","C","_","S","P","I">>,  \* 375 "MSGOUT-UBX_NAV_TIMEUTC_SPI"
    <<"M","S","G","O","U","T","-","U","B","X","_","N","A","V","_","T","I","M","E","U","T","C","_","U","A","R","T","1">>,  \* 376 "MSGOUT-UBX_NAV_TIMEUTC_UART1"
    <<"M","S","G","O","U","T","-","U","B","X","_","N","A","V","_","T","I","M","E","U","T","C","_","U","A","R","T","2">>,  \* 377 "MSGOUT-UBX_NAV_TIMEUTC_UART2"
    <<"M","S","G","O","U","T","-","U","B","X","_","N","A","V","_","T","I","M","E","U","T","C","_","U","S","B">>,  \* 378 "MSGOUT-UBX_NAV_TIMEUTC_USB"
    <<"M","S","G","O","U","T","-","U","B","X","_","N","A","V","_","V","E","L","E","C","E","F","_","I","2","C">>,  \* 379 "MSGOUT-UBX_NAV_VELECEF_I2C"
    <<"M","S","G","O","U","T","-","U","B","X","_","N","A","V","_","V","E","L","E","C","E","F","_","S","P","I">>,  \* 380 "MSGOUT-UBX_NAV_VELECEF_SPI"
    <<"M","S","G","O","U","T","-","U","B","X","_","N","A","V","_","V","E","L","E","C","E","F","_","U","A","R","T","1">>,  \* 381 "MSGOUT-UBX_NAV_VELECEF_UART1"
    <<"M","S","G","O","U","T","-","U","B","X","_","N","A","V","_","V","E","L","E","C","E","F","_","U","A","R","T","2">>,  \* 382 "MSGOUT-UBX_NAV_VELECEF_UART2"
    <<"M","S","G","O","U","T","-","U","B","X","_","N","A","V","_","V","E","L","E","C","E","F","_","U","S","B">>,  \* 383 "MSGOUT-UBX_NAV_VELECEF_USB"
    <<"M","S","G","O","U","T","-","U","B","X","_","N","A","V","_","V","E","L","N","E","D","_","I","2","C">>,  \* 384 "MSGOUT-UBX_NAV_VELNED_I2C"
    <<"M","S","G","O","U","T","-","U","B","X","_","N","A","V","_","V","E","L","N","E","D","_","S","P","I">>,  \* 385 "MSGOUT-UBX_NAV_VELNED_SPI"
    <<"M","S","G","O","U","T","-","U","B","X","_","N","A","V","_","V","E","L","N","E","D","_","U","A","R","T","1">>,  \* 386 "MSGOUT-UBX_NAV_VELNED_UART1"
    <<"M","S","G","O","U","T","-","U","B","X","_","N","A","V","_","V","E","L","N","E","D","_","U","A","R","T","2">>,  \* 387 "MSGOUT-UBX_NAV_VELNED_UART2"
    <<"M","S","G","O","U","T","-","U","B","X","_","N","A","V","_","V","E","L","N","E","D","_","U","S","B">>,  \* 388 "MSGOUT-UBX_NAV_VELNED_USB"
    <<"M","S","G","O","U","T","-","U","B","X","_","R","X","M","_","M","E","A","S","X","_","I","2","C">>,  \* 389 "MSGOUT-UBX_RXM_MEASX_I2C"
    <<"M","S","G","O","U","T","-","U","B","X","_","R","X","M","_","M","E","A","S","X","_","S","P","I">>,  \* 390 "MSGOUT-UBX_RXM_MEASX_SPI"
    <<"M","S","G","O","U","T","-","U","B","X","_","R","X","M","_","M","E","A","S","X","_","U","A","R","T","1">>,  \* 391 "MSGOUT-UBX_RXM_MEASX_UART1"
    <<"M","S","G","O","U","T","-","U","B","X","_","R","X","M","_","M","E","A","S","X","_","U","A","R","T","2">>,  \* 392 "MSGOUT-UBX_RXM_MEASX_UART2"
    <<"M","S","G","O","U","T","-","U","B","X","_","R","X","M","_","M","E","A","S","X","_","U","S","B">>,  \* 393 "MSGOUT-UBX_RXM_MEASX_USB"
    <<"M","S","G","O","U","T","-","U","B","X","_","R","X","M","_","R","A","W","X","_","I","2","C">>,  \* 394 "MSGOUT-UBX_RXM_RAWX_I2C"
    <<"M","S","G","O","U","T","-","U","B","X","_","R","X","M","_","R","A","W","X","_","S","P","I">>,  \* 395 "MSGOUT-UBX_RXM_RAWX_SPI"
    <<"M","S","G","O","U","T","-","U","B","X","_","R","X","M","_","R","A","W","X","_","U","A","R","T","1">>,  \* 396 "MSGOUT-UBX_RXM_RAWX_UART1"
    <<"M","S","G","O","U","T","-","U","B","X","_","R","X","M","_","R","A","W","X","_","U","A","R","T","2">>,  \* 397 "MSGOUT-UBX_RXM_RAWX_UART2"
    <<"M","S","G","O","U","T","-","U","B","X","_","R","X","M","_","R","A","W","X","_","U","S","B">>,  \* 398 "MSGOUT-UBX_RXM_RAWX_USB"
    <<"M","S","G","O","U","T","-","U","B","X","_","R","X","M","_","R","L","M","_","I","2","C">>,  \* 399 "MSGOUT-UBX_RXM_RLM_I2C"
    <<"M","S","G","O","U","T","-","U","B","X","_","R","X","M","_","R","L","M","_","S","P","I">>,  \* 400 "MSGOUT-UBX_RXM_RLM_SPI"
    <<"M","S","G","O","U","T","-","U","B","X","_","R","X","M","_","R","L","M","_","U","A","R","T","1">>,  \* 401 "MSGOUT-UBX_RXM_RLM_UART1"
    <<"M","S","G","O","U","T","-","U","B","X","_","R","X","M","_","R","L","M","_","U","A","R","T","2">>,  \* 402 "MSGOUT-UBX_RXM_RLM_UART2"
    <<"M","S","G","O","U","T","-","U","B","X","_","R","X","M","_","R","L","M","_","U","S","B">>,  \* 403 "MSGOUT-UBX_RXM_RLM_USB"
    <<"M","S","G","O","U","T","-","U","B","X","_","R","X","M","_","R","T","C","M","_","I","2","C">>,  \* 404 "MSGOUT-UBX_RXM_RTCM_I2C"
    <<"M","S","G","O","U","T","-","U","B","X","_","R","X","M","_","R","T","C","M","_","S","P","I">>,  \* 405 "MSGOUT-UBX_RXM_RTCM_SPI"
    <<"M","S","G","O","U","T","-","U","B","X","_","R","X","M","_","R","T","C","M","_","U","A","R","T","1">>,  \* 406 "MSGOUT-UBX_RXM_RTCM_UART1"
    <<"M","S","G","O","U","T","-","U","B","X","_","R","X","M","_","R","T","C","M","_","U","A","R","T","2">>,  \* 407 "MSGOUT-UBX_RXM_RTCM_UART2"
    <<"M","S","G","O","U","T","-","U","B","X","_","R","X","M","_","R","T","C","M","_","U","S","B">>,  \* 408 "MSGOUT-UBX_RXM_RTCM_USB"
    <<"M","S","G","O","U","T","-","U","B","X","_","R","X","M","_","S","F","R","B","X","_","I","2","C">>,  \* 409 "MSGOUT-UBX_RXM_SFRBX_I2C"
    <<"M","S","G","O","U","T","-","U","B","X","_","R","X","M","_","S","F","R","B","X","_","S","P","I">>,  \* 410 "MSGOUT-UBX_RXM_SFRBX_SPI"
    <<"M","S","G","O","U","T","-","U","B","X","_","R","X","M","_","S","F","R","B","X","_","U","A","R","T","1">>,  \* 411 "MSGOUT-UBX_RXM_SFRBX_UART1"
    <<"M","S","G","O","U","T","-","U","B","X","_","R","X","M","_","S","F","R","B","X","_","U","A","R","T","2">>,  \* 412 "MSGOUT-UBX_RXM_SFRBX_UART2"
    <<"M","S","G","O","U","T","-","U","B","X","_","R","X","M","_","S","F","R","B","X","_","U","S","B">>,  \* 413 "MSGOUT-UBX_RXM_SFRBX_USB"
    <<"M","S","G","O","U","T","-","U","B","X","_","T","I","M","_","S","V","I","N","_","I","2","C">>,  \* 414 "MSGOUT-UBX_TIM_SVIN_I2C"
    <<"M","S","G","O","U","T","-","U","B","X","_","T","I","M","_","S","V","I","N","_","S","P","I">>,  \* 415 "MSGOUT-UBX_TIM_SVIN_SPI"
    <<"M","S","G","O","U","T","-","U","B","X","_","T","I","M","_","S","V","I","N","_","U","A","R","T","1">>,  \* 416 "MSGOUT-UBX_TIM_SVIN_UART1"
    <<"M","S","G","O","U","T","-","U","B","X","_","T","I","M","_","S","V","I","N","_","U","A","R","T","2">>,  \* 417 "MSGOUT-UBX_TIM_SVIN_UART2"
    <<"M","S","G","O","U","T","-","U","B","X","_","T","I","M","_","S","V","I","N","_","U","S","B">>,  \* 418 "MSGOUT-UBX_TIM_SVIN_USB"
    <<"M","S","G","O","U","T","-","U","B","X","_","T","I","M","_","T","M","2","_","I","2","C">>,  \* 419 "MSGOUT-UBX_TIM_TM2_I2C"
    <<"M","S","G","O","U","T","-","U","B","X","_","T","I","M","_","T","M","2","_","S","P","I">>,  \* 420 "MSGOUT-UBX_TIM_TM2_SPI"
    <<"M","S","G","O","U","T","-","U","B","X","_","T","I","M","_","T","M","2","_","U","A","R","T","1">>,  \* 421 "MSGOUT-UBX_TIM_TM2_UART1"
    <<"M","S","G","O","U","T","-","U","B","X","_","T","I","M","_","T","M","2","_","U","A","R","T","2">>,  \* 422 "MSGOUT-UBX_TIM_TM2_UART2"
    <<"M","S","G","O","U","T","-","U","B","X","_","T","I","M","_","T","M","2","_","U","S","B">>,  \* 423 "MSGOUT-UBX_TIM_TM2_USB"
    <<"M","S","G","O","U","T","-","U","B","X","_","T","I","M","_","T","P","_","I","2","C">>,  \* 424 "MSGOUT-UBX_TIM_TP_I2C"
    <<"M","S","G","O","U","T","-","U","B","X","_","T","I","M","_","T","P","_","S","P","I">>,  \* 425 "MSGOUT-UBX_TIM_TP_SPI"
    <<"M","S","G","O","U","T","-","U","B","X","_","T","I","M","_","T","P","_","U","A","R","T","1">>,  \* 426 "MSGOUT-UBX_TIM_TP_UART1"
    <<"M","S","G","O","U","T","-","U","B","X","_","T","I","M","_","T","P","_","U","A","R","T","2">>,  \* 427 "MSGOUT-UBX_TIM_TP_UART2"
    <<"M","S","G","O","U","T","-","U","B","X","_","T","I","M","_","T","P","_","U","S","B">>,  \* 428 "MSGOUT-UBX_TIM_TP_USB"
    <<"M","S","G","O","U","T","-","U","B","X","_","T","I","M","_","V","R","F","Y","_","I","2","C">>,  \* 429 "MSGOUT-UBX_TIM_VRFY_I2C"
    <<"M","S","G","O","U","T","-","U","B","X","_","T","I","M","_","V","R","F","Y","_","S","P","I">>,  \* 430 "MSGOUT-UBX_TIM_VRFY_SPI"
    <<"M","S","G","O","U","T","-","U","B","X","_","T","I","M","_","V","R","F","Y","_","U","A","R","T","1">>,  \* 431 "MSGOUT-UBX_TIM_VRFY_UART1"
    <<"M","S","G","O","U","T","-","U","B","X","_","T","I","M","_","V","R","F","Y","_","U","A","R","T","2">>,  \* 432 "MSGOUT-UBX_TIM_VRFY_UART2"
    <<"M","S","G","O","U","T","-","U","B","X","_","T","I","M","_","V","R","F","Y","_","U","S","B">>,  \* 433 "MSGOUT-UBX_TIM_VRFY_USB"
    <<"N","A","V","H","P","G","-","D","G","N","S","S","M","O","D","E">>,  \* 434 "NAVHPG-DGNSSMODE"
    <<"N","A","V","S","P","G","-","F","I","X","M","O","D","E">>,  \* 435 "NAVSPG-FIXMODE"
    <<"N","A","V","S","P","G","-","I","N","I","F","I","X","3","D">>,  \* 436 "NAVSPG-INIFIX3D"
    <<"N","A","V","S","P","G","-","W","K","N","R","O","L","L","O","V","E","R">>,  \* 437 "NAVSPG-WKNROLLOVER"
    <<"N","A","V","S","P","G","-","U","S","E","_","P","P","P">>,  \* 438 "NAVSPG-USE_PPP"
    <<"N","A","V","S","P","G","-","U","T","C","S","T","A","N","D","A","R","D">>,  \* 439 "NAVSPG-UTCSTANDARD"
    <<"N","A","V","S","P","G","-","D","Y","N","M","O","D","E","L">>,  \* 440 "NAVSPG-DYNMODEL"
    <<"N","A","V","S","P","G","-","A","C","K","A","I","D","I","N","G">>,  \* 441 "NAVSPG-ACKAIDING"
    <<"N","A","V","S","P","G","-","U","S","E","_","U","S","R","D","A","T">>,  \* 442 "NAVSPG-USE_USRDAT"
    <<"N","A","V","S","P","G","-","U","S","R","D","A","T","_","M","A","J","A">>,  \* 443 "NAVSPG-USRDAT_MAJA"
    <<"N","A","V","S","P","G","-","U","S","R","D","A","T","_","F","L","A","T">>,  \* 444 "NAVSPG-USRDAT_FLAT"
    <<"N","A","V","S","P","G","-","U","S","R","D","A","T","_","D","X">>,  \* 445 "NAVSPG-USRDAT_DX"
    <<"N","A","V","S","P","G","-","U","S","R","D","A","T","_","D","Y">>,  \* 446 "NAVSPG-USRDAT_DY"
    <<"N","A","V","S","P","G","-","U","S","R","D","A","T","_","D","Z">>,  \* 447 "NAVSPG-USRDAT_DZ"
    <<"N","A","V","S","P","G","-","U","S","R","D","A","T","_","R","O","T","X">>,  \* 448 "NAVSPG-USRDAT_ROTX"
    <<"N","A","V","S","P","G","-","U","S","R","D","A","T","_","R","O","T","Y">>,  \* 449 "NAVSPG-USRDAT_ROTY"
    <<"N","A","V","S","P","G","-","U","S","R","D","A","T","_","R","O","T","Z">>,  \* 450 "NAVSPG-USRDAT_ROTZ"
    <<"N","A","V","S","P","G","-","U","S","R","D","A","T","_","S","C","A","L","E">>,  \* 451 "NAVSPG-USRDAT_SCALE"
    <<"N","A","V","S","P","G","-","I","N","F","I","L","_","M","I","N","S","V","S">>,  \* 452 "NAVSPG-INFIL_MINSVS"
    <<"N","A","V","S","P","G","-","I","N","F","I","L","_","M","A","X","S","V","S">>,  \* 453 "NAVSPG-INFIL_MAXSVS"
    <<"N","A","V","S","P","G","-","I","N","F","I","L","_","M","I","N","C","N","O">>,  \* 454 "NAVSPG-INFIL_MINCNO"
    <<"N","A","V","S","P","G","-","I","N","F","I","L","_","M","I","N","E","L","E","V">>,  \* 455 "NAVSPG-INFIL_MINELEV"
    <<"N","A","V","S","P","G","-","I","N","F","I","L","_","N","C","N","O","T","H","R","S">>,  \* 456 "NAVSPG-INFIL_NCNOTHRS"
    <<"N","A","V","S","P","G","-","I","N","F","I","L","_","C","N","O","T","H","R","S">>,  \* 457 "NAVSPG-INFIL_CNOTHRS"
    <<"N","A","V","S","P","G","-","O","U","T","F","I","L","_","P","D","O","P">>,  \* 458 "NAVSPG-OUTFIL_PDOP"
    <<"N","A","V","S","P","G","-","O","U","T","F","I","L","_","T","D","O","P">>,  \* 459 "NAVSPG-OUTFIL_TDOP"
    <<"N","A","V","S","P","G","-","O","U","T","F","I","L","_","P","A","C","C">>,  \* 460 "NAVSPG-OUTFIL_PACC"
    <<"N","A","V","S","P","G","-","O","U","T","F","I","L","_","T","A","C","C">>,  \* 461 "NAVSPG-OUTFIL_TACC"
    <<"N","A","V","S","P","G","-","O","U","T","F","I","L","_","F","A","C","C">>,  \* 462 "NAVSPG-OUTFIL_FACC"
    <<"N","A","V","S","P","G","-","C","O","N","S","T","R","_","A","L","T">>,  \* 463 "NAVSPG-CONSTR_ALT"
    <<"N","A","V","S","P","G","-","C","O","N","S","T","R","_","A","L","T","V","A","R">>,  \* 464 "NAVSPG-CONSTR_ALTVAR"
    <<"N","A","V","S","P","G","-","C","O","N","S","T","R","_","D","G","N","S","S","T","O">>,  \* 465 "NAVSPG-CONSTR_DGNSSTO"
    <<"N","M","E","A","-","P","R","O","T","V","E","R">>,  \* 466 "NMEA-PROTVER"
    <<"N","M","E","A","-","M","A","X","S","V","S">>,  \* 467 "NMEA-MAXSVS"
    <<"N","M","E","A","-","C","O","M","P","A","T">>,  \* 468 "NMEA-COMPAT"
    <<"N","M","E","A","-","C","O","N","S","I","D","E","R">>,  \* 469 "NMEA-CONSIDER"
    <<"N","M","E","A","-","L","I","M","I","T","8","2">>,  \* 470 "NMEA-LIMIT82"
    <<"N","M","E","A","-","H","I","G","H","P","R","E","C">>,  \* 471 "NMEA-HIGHPREC"
    <<"N","M","E","A","-","S","V","N","U","M","B","E","R","I","N","G">>,  \* 472 "NMEA-SVNUMBERING"
    <<"N","M","E","A","-","F","I","L","T","_","G","P","S">>,  \* 473 "NMEA-FILT_GPS"
    <<"N","M","E","A","-","F","I","L","T","_","S","B","A","S">>,  \* 474 "NMEA-FILT_SBAS"
    <<"N","M","E","A","-","F","I","L","T","_","Q","Z","S","S">>,  \* 475 "NMEA-FILT_QZSS"
    <<"N","M","E","A","-","F","I","L","T","_","G","L","O">>,  \* 476 "NMEA-FILT_GLO"
    <<"N","M","E","A","-","F","I","L","T","_","B","D","S">>,  \* 477 "NMEA-FILT_BDS"
    <<"N","M","E","A","-","O","U","T","_","I","N","V","F","I","X">>,  \* 478 "NMEA-OUT_INVFIX"
    <<"N","M","E","A","-","O","U","T","_","M","S","K","F","I","X">>,  \* 479 "NMEA-OUT_MSKFIX"
    <<"N","M","E","A","-","O","U","T","_","I","N","V","T","I","M","E">>,  \* 480 "NMEA-OUT_INVTIME"
    <<"N","M","E","A","-","O","U","T","_","I","N","V","D","A","T","E">>,  \* 481 "NMEA-OUT_INVDATE"
    <<"N","M","E","A","-","O","U","T","_","O","N","L","Y","G","P","S">>,  \* 482 "NMEA-OUT_ONLYGPS"
    <<"N","M","E","A","-","O","U","T","_","F","R","O","Z","E","N","C","O","G">>,  \* 483 "NMEA-OUT_FROZENCOG"
    <<"N","M","E","A","-","M","A","I","N","T","A","L","K","E","R","I","D">>,  \* 484 "NMEA-MAINTALKERID"
    <<"N","M","E","A","-","G","S","V","T","A","L","K","E","R","I","D">>,  \* 485 "NMEA-GSVTALKERID"
    <<"N","M","E","A","-","B","D","S","T","A","L","K","E","R","I","D">>,  \* 486 "NMEA-BDSTALKERID"
    <<"O","D","O","-","U","S","E","_","O","D","O">>,  \* 487 "ODO-USE_ODO"
    <<"O","D","O","-","U","S","E","_","C","O","G">>,  \* 488 "ODO-USE_COG"
    <<"O","D","O","-","O","U","T","L","P","V","E","L">>,  \* 489 "ODO-OUTLPVEL"
    <<"O","D","O","-","O","U","T","L","P","C","O","G">>,  \* 490 "ODO-OUTLPCOG"
    <<"O","D","O","-","P","R","O","F","I","L","E">>,  \* 491 "ODO-PROFILE"
    <<"O","D","O","-","C","O","G","M","A","X","S","P","E","E","D">>,  \* 492 "ODO-COGMAXSPEED"
    <<"O","D","O","-","C","O","G","M","A","X","P","O","S","A","C","C">>,  \* 493 "ODO-COGMAXPOSACC"
    <<"O","D","O","-","C","O","G","L","P","G","A","I","N">>,  \* 494 "ODO-COGLPGAIN"
    <<"O","D","O","-","V","E","L","L","P","G","A","I","N">>,  \* 495 "ODO-VELLPGAIN"
    <<"R","A","T","E","-","M","E","A","S">>,  \* 496 "RATE-MEAS"
    <<"R","A","T","E","-","N","A","V">>,  \* 497 "RATE-NAV"
    <<"R","A","T","E","-","T","I","M","E","R","E","F">>,  \* 498 "RATE-TIMEREF"
    <<"R","I","N","V","-","D","U","M","P">>,  \* 499 "RINV-DUMP"
    <<"R","I","N","V","-","B","I","N","A","R","Y">>,  \* 500 "RINV-BINARY"
    <<"R","I","N","V","-","D","A","T","A","_","S","I","Z","E">>,  \* 501 "RINV-DATA_SIZE"
    <<"R","I","N","V","-","C","H","U","N","K","0">>,  \* 502 "RINV-CHUNK0"
    <<"R","I","N","V","-","C","H","U","N","K","1">>,  \* 503 "RINV-CHUNK1"
    <<"R","I","N","V","-","C","H","U","N","K","2">>,  \* 504 "RINV-CHUNK2"
    <<"R","I","N","V","-","C","H","U","N","K","3">>,  \* 505 "RINV-CHUNK3"
    <<"S","B","A","S","-","U","S","E","_","T","E","S","T","M","O","D","E">>,  \* 506 "SBAS-USE_TESTMODE"
    <<"S","B","A","S","-","U","S","E","_","R","A","N","G","I","N","G">>,  \* 507 "SBAS-USE_RANGING"
    <<"S","B","A","S","-","U","S","E","_","D","I","F","F","C","O","R","R">>,  \* 508 "SBAS-USE_DIFFCORR"
    <<"S","B","A","S","-","U","S","E","_","I","N","T","E","G","R","I","T","Y">>,  \* 509 "SBAS-USE_INTEGRITY"
    <<"S","B","A","S","-","P","R","N","S","C","A","N","M","A","S","K">>,  \* 510 "SBAS-PRNSCANMASK"
    <<"S","I","G","N","A","L","-","G","P","S","_","E","N","A">>,  \* 511 "SIGNAL-GPS_ENA"
    <<"S","I","G","N","A","L","-","G","P","S","_","L","1","C","A","_","E","N","A">>,  \* 512 "SIGNAL-GPS_L1CA_ENA"
    <<"S","I","G","N","A","L","-","G","P","S","_","L","2","C","_","E","N","A">>,  \* 513 "SIGNAL-GPS_L2C_ENA"
    <<"S","I","G","N","A","L","-","S","B","A","S","_","E","N","A">>,  \* 514 "SIGNAL-SBAS_ENA"
    <<"S","I","G","N","A","L","-","S","B","A","S","_","L","1","C","A","_","E","N","A">>,  \* 515 "SIGNAL-SBAS_L1CA_ENA"
    <<"S","I","G","N","A","L","-","G","A","L","_","E","N","A">>,  \* 516 "SIGNAL-GAL_ENA"
    <<"S","I","G","N","A","L","-","G","A","L","_","E","1","_","E","N","A">>,  \* 517 "SIGNAL-GAL_E1_ENA"
    <<"S","I","G","N","A","L","-","G","A","L","_","E","5","B","_","E","N","A">>,  \* 518 "SIGNAL-GAL_E5B_ENA"
    <<"S","I","G","N","A","L","-","B","D","S","_","E","N","A">>,  \* 519 "SIGNAL-BDS_ENA"
    <<"S","I","G","N","A","L","-","B","D","S","_","B","1","_","E","N","A">>,  \* 520 "SIGNAL-BDS_B1_ENA"
    <<"S","I","G","N","A","L","-","B","D","S","_","B","2","_","E","N","A">>,  \* 521 "SIGNAL-BDS_B2_ENA"
    <<"S","I","G","N","A","L","-","Q","Z","S","S","_","E","N","A">>,  \* 522 "SIGNAL-QZSS_ENA"
    <<"S","I","G","N","A","L","-","Q","Z","S","S","_","L","1","C","A","_","E","N","A">>,  \* 523 "SIGNAL-QZSS_L1CA_ENA"
    <<"S","I","G","N","A","L","-","Q","Z","S","S","_","L","1","S","_","E","N","A">>,  \* 524 "SIGNAL-QZSS_L1S_ENA"
    <<"S","I","G","N","A","L","-","Q","Z","S","S","_","L","2","C","_","E","N","A">>,  \* 525 "SIGNAL-QZSS_L2C_ENA"
    <<"S","I","G","N","A","L","-","G","L","O","_","E","N","A">>,  \* 526 "SIGNAL-GLO_ENA"
    <<"S","I","G","N","A","L","-","G","L","O","_","L","1","_","E","N","A">>,  \* 527 "SIGNAL-GLO_L1_ENA"
    <<"S","I","G","N","A","L","-","G","L","O","_","L","2","_","E","N","A">>,  \* 528 "SIGNAL-GLO_L2_ENA"
    <<"S","P","I","-","M","A","X","F","F">>,  \* 529 "SPI-MAXFF"
    <<"S","P","I","-","C","P","O","L","A","R","I","T","Y">>,  \* 530 "SPI-CPOLARITY"
    <<"S","P","I","-","C","P","H","A","S","E">>,  \* 531 "SPI-CPHASE"
    <<"S","P","I","-","E","X","T","E","N","D","E","D","T","I","M","E","O","U","T">>,  \* 532 "SPI-EXTENDEDTIMEOUT"
    <<"S","P","I","-","E","N","A","B","L","E","D">>,  \* 533 "SPI-ENABLED"
    <<"S","P","I","I","N","P","R","O","T","-","U","B","X">>,  \* 534 "SPIINPROT-UBX"
    <<"S","P","I","I","N","P","R","O","T","-","N","M","E","A">>,  \* 535 "SPIINPROT-NMEA"
    <<"S","P","I","I","N","P","R","O","T","-","R","T","C","M","2","X">>,  \* 536 "SPIINPROT-RTCM2X"
    <<"S","P","I","I","N","P","R","O","T","-","R","T","C","M","3","X">>,  \* 537 "SPIINPROT-RTCM3X"
    <<"S","P","I","O","U","T","P","R","O","T","-","U","B","X">>,  \* 538 "SPIOUTPROT-UBX"
    <<"S","P","I","O","U","T","P","R","O","T","-","N","M","E","A">>,  \* 539 "SPIOUTPROT-NMEA"
    <<"S","P","I","O","U","T","P","R","O","T","-","R","T","C","M","3","X">>,  \* 540 "SPIOUTPROT-RTCM3X"
    <<"T","M","O","D","E","-","M","O","D","E">>,  \* 541 "TMODE-MODE"
    <<"T","M","O","D","E","-","P","O","S","_","T","Y","P","E">>,  \* 542 "TMODE-POS_TYPE"
    <<"T","M","O","D","E","-","E","C","E","F","_","X">>,  \* 543 "TMODE-ECEF_X"
    <<"T","M","O","D","E","-","E","C","E","F","_","Y">>,  \* 544 "TMODE-ECEF_Y"
    <<"T","M","O","D","E","-","E","C","E","F","_","Z">>,  \* 545 "TMODE-ECEF_Z"
    <<"T","M","O","D","E","-","E","C","E","F","_","X","_","H","P">>,  \* 546 "TMODE-ECEF_X_HP"
    <<"T","M","O","D","E","-","E","C","E","F","_","Y","_","H","P">>,  \* 547 "TMODE-ECEF_Y_HP"
    <<"T","M","O","D","E","-","E","C","E","F","_","Z","_","H","P">>,  \* 548 "TMODE-ECEF_Z_HP"
    <<"T","M","O","D","E","-","L","A","T">>,  \* 549 "TMODE-LAT"
    <<"T","M","O","D","E","-","L","O","N">>,  \* 550 "TMODE-LON"
    <<"T","M","O","D","E","-","H","E","I","G","H","T">>,  \* 551 "TMODE-HEIGHT"
    <<"T","M","O","D","E","-","L","A","T","_","H","P">>,  \* 552 "TMODE-LAT_HP"
    <<"T","M","O","D","E","-","L","O","N","_","H","P">>,  \* 553 "TMODE-LON_HP"
    <<"T","M","O","D","E","-","H","E","I","G","H","T","_","H","P">>,  \* 554 "TMODE-HEIGHT_HP"
    <<"T","M","O","D","E","-","F","I","X","E","D","_","P","O","S","_","A","C","C">>,  \* 555 "TMODE-FIXED_POS_ACC"
    <<"T","M","O","D","E","-","S","V","I","N","_","M","I","N","_","D","U","R">>,  \* 556 "TMODE-SVIN_MIN_DUR"
    <<"T","M","O","D","E","-","S","V","I","N","_","A","C","C","_","L","I","M","I","T">>,  \* 557 "TMODE-SVIN_ACC_LIMIT"
    <<"T","P","-","P","U","L","S","E","_","D","E","F">>,  \* 558 "TP-PULSE_DEF"
    <<"T","P","-","P","U","L","S","E","_","L","E","N","G","T","H","_","D","E","F">>,  \* 559 "TP-PULSE_LENGTH_DEF"
    <<"T","P","-","A","N","T","_","C","A","B","L","E","D","E","L","A","Y">>,  \* 560 "TP-ANT_CABLEDELAY"
    <<"T","P","-","P","E","R","I","O","D","_","T","P","1">>,  \* 561 "TP-PERIOD_TP1"
    <<"T","P","-","P","E","R","I","O","D","_","L","O","C","K","_","T","P","1">>,  \* 562 "TP-PERIOD_LOCK_TP1"
    <<"T","P","-","F","R","E","Q","_","T","P","1">>,  \* 563 "TP-FREQ_TP1"
    <<"T","P","-","F","R","E","Q","_","L","O","C","K","_","T","P","1">>,  \* 564 "TP-FREQ_LOCK_TP1"
    <<"T","P","-","L","E","N","_","T","P","1">>,  \* 565 "TP-LEN_TP1"
    <<"T","P","-","L","E","N","_","L","O","C","K","_","T","P","1">>,  \* 566 "TP-LEN_LOCK_TP1"
    <<"T","P","-","D","U","T","Y","_","T","P","1">>,  \* 567 "TP-DUTY_TP1"
    <<"T","P","-","D","U","T","Y","_","L","O","C","K","_","T","P","1">>,  \* 568 "TP-DUTY_LOCK_TP1"
    <<"T","P","-","U","S","E","R","_","D","E","L","A","Y","_","T","P","1">>,  \* 569 "TP-USER_DELAY_TP1"
    <<"T","P","-","T","P","1","_","E","N","A">>,  \* 570 "TP-TP1_ENA"
    <<"T","P","-","S","Y","N","C","_","G","N","S","S","_","T","P","1">>,  \* 571 "TP-SYNC_GNSS_TP1"
    <<"T","P","-","U","S","E","_","L","O","C","K","E","D","_","T","P","1">>,  \* 572 "TP-USE_LOCKED_TP1"
    <<"T","P","-","A","L","I","G","N","_","T","O","_","T","O","W","_","T","P","1">>,  \* 573 "TP-ALIGN_TO_TOW_TP1"
    <<"T","P","-","P","O","L","_","T","P","1">>,  \* 574 "TP-POL_TP1"
    <<"T","P","-","T","I","M","E","G","R","I","D","_","T","P","1">>,  \* 575 "TP-TIMEGRID_TP1"
    <<"T","P","-","P","E","R","I","O","D","_","T","P","2">>,  \* 576 "TP-PERIOD_TP2"
    <<"T","P","-","P","E","R","I","O","D","_","L","O","C","K","_","T","P","2">>,  \* 577 "TP-PERIOD_LOCK_TP2"
    <<"T","P","-","F","R","E","Q","_","T","P","2">>,  \* 578 "TP-FREQ_TP2"
    <<"T","P","-","F","R","E","Q","_","L","O","C","K","_","T","P","2">>,  \* 579 "TP-FREQ_LOCK_TP2"
    <<"T","P","-","L","E","N","_","T","P","2">>,  \* 580 "TP-LEN_TP2"
    <<"T","P","-","L","E","N","_","L","O","C","K","_","T","P","2">>,  \* 581 "TP-LEN_LOCK_TP2"
    <<"T","P","-","D","U","T","Y","_","T","P","2">>,  \* 582 "TP-DUTY_TP2"
    <<"T","P","-","D","U","T","Y","_","L","O","C","K","_","T","P","2">>,  \* 583 "TP-DUTY_LOCK_TP2"
    <<"T","P","-","U","S","E","R","_","D","E","L","A","Y","_","T","P","2">>,  \* 584 "TP-USER_DELAY_TP2"
    <<"T","P","-","T","P","2","_","E","N","A">>,  \* 585 "TP-TP2_ENA"
    <<"T","P","-","S","Y","N","C","_","G","N","S","S","_","T","P","2">>,  \* 586 "TP-SYNC_GNSS_TP2"
    <<"T","P","-","U","S","E","_","L","O","C","K","E","D","_","T","P","2">>,  \* 587 "TP-USE_LOCKED_TP2"
    <<"T","P","-","A","L","I","G","N","_","T","O","_","T","O","W","_","T","P","2">>,  \* 588 "TP-ALIGN_TO_TOW_TP2"
    <<"T","P","-","P","O","L","_","T","P","2">>,  \* 589 "TP-POL_TP2"
    <<"T","P","-","T","I","M","E","G","R","I","D","_","T","P","2">>,  \* 590 "TP-TIMEGRID_TP2"
    <<"U","A","R","T","1","-","B","A","U","D","R","A","T","E">>,  \* 591 "UART1-BAUDRATE"
    <<"U","A","R","T","1","-","S","T","O","P","B","I","T","S">>,  \* 592 "UART1-STOPBITS"
    <<"U","A","R","T","1","-","D","A","T","A","B","I","T","S">>,  \* 593 "UART1-DATABITS"
    <<"U","A","R","T","1","-","P","A","R","I","T","Y">>,  \* 594 "UART1-PARITY"
    <<"U","A","R","T","1","-","E","N","A","B","L","E","D">>,  \* 595 "UART1-ENABLED"
    <<"U","A","R","T","1","I","N","P","R","O","T","-","U","B","X">>,  \* 596 "UART1INPROT-UBX"
    <<"U","A","R","T","1","I","N","P","R","O","T","-","N","M","E","A">>,  \* 597 "UART1INPROT-NMEA"
    <<"U","A","R","T","1","I","N","P","R","O","T","-","R","T","C","M","2","X">>,  \* 598 "UART1INPROT-RTCM2X"
    <<"U","A","R","T","1","I","N","P","R","O","T","-","R","T","C","M","3","X">>,  \* 599 "UART1INPROT-RTCM3X"
    <<"U","A","R","T","1","O","U","T","P","R","O","T","-","U","B","X">>,  \* 600 "UART1OUTPROT-UBX"
    <<"U","A","R","T","1","O","U","T","P","R","O","T","-","N","M","E","A">>,  \* 601 "UART1OUTPROT-NMEA"
    <<"U","A","R","T","1","O","U","T","P","R","O","T","-","R","T","C","M","3","X">>,  \* 602 "UART1OUTPROT-RTCM3X"
    <<"U","A","R","T","2","-","B","A","U","D","R","A","T","E">>,  \* 603 "UART2-BAUDRATE"
    <<"U","A","R","T","2","-","S","T","O","P","B","I","T","S">>,  \* 604 "UART2-STOPBITS"
    <<"U","A","R","T","2","-","D","A","T","A","B","I","T","S">>,  \* 605 "UART2-DATABITS"
    <<"U","A","R","T","2","-","P","A","R","I","T","Y">>,  \* 606 "UART2-PARITY"
    <<"U","A","R","T","2","-","E","N","A","B","L","E","D">>,  \* 607 "UART2-ENABLED"
    <<"U","A","R","T","2","-","R","E","M","A","P">>,  \* 608 "UART2-REMAP"
    <<"U","A","R","T","2","I","N","P","R","O","T","-","U","B","X">>,  \* 609 "UART2INPROT-UBX"
    <<"U","A","R","T","2","I","N","P","R","O","T","-","N","M","E","A">>,  \* 610 "UART2INPROT-NMEA"
    <<"U","A","R","T","2","I","N","P","R","O","T","-","R","T","C","M","2","X">>,  \* 611 "UART2INPROT-RTCM2X"
    <<"U","A","R","T","2","I","N","P","R","O","T","-","R","T","C","M","3","X">>,  \* 612 "UART2INPROT-RTCM3X"
    <<"U","A","R","T","2","O","U","T","P","R","O","T","-","U","B","X">>,  \* 613 "UART2OUTPROT-UBX"
    <<"U","A","R","T","2","O","U","T","P","R","O","T","-","N","M","E","A">>,  \* 614 "UART2OUTPROT-NMEA"
    <<"U","A","R","T","2","O","U","T","P","R","O","T","-","R","T","C","M","3","X">>,  \* 615 "UART2OUTPROT-RTCM3X"
    <<"U","S","B","-","E","N","A","B","L","E","D">>,  \* 616 "USB-ENABLED"
    <<"U","S","B","-","S","E","L","F","P","O","W">>,  \* 617 "USB-SELFPOW"
    <<"U","S","B","-","V","E","N","D","O","R","_","I","D">>,  \* 618 "USB-VENDOR_ID"
    <<"U","S","B","-","P","R","O","D","U","C","T","_","I","D">>,  \* 619 "USB-PRODUCT_ID"
    <<"U","S","B","-","P","O","W","E","R">>,  \* 620 "USB-POWER"
    <<"U","S","B","-","V","E","N","D","O","R","_","S","T","R","0">>,  \* 621 "USB-VENDOR_STR0"
    <<"U","S","B","-","V","E","N","D","O","R","_","S","T","R","1">>,  \* 622 "USB-VENDOR_STR1"
    <<"U","S","B","-","V","E","N","D","O","R","_","S","T","R","2">>,  \* 623 "USB-VENDOR_STR2"
    <<"U","S","B","-","V","E","N","D","O","R","_","S","T","R","3">>,  \* 624 "USB-VENDOR_STR3"
    <<"U","S","B","-","P","R","O","D","U","C","T","_","S","T","R","0">>,  \* 625 "USB-PRODUCT_STR0"
    <<"U","S","B","-","P","R","O","D","U","C","T","_","S","T","R","1">>,  \* 626 "USB-PRODUCT_STR1"
    <<"U","S","B","-","P","R","O","D","U","C","T","_","S","T","R","2">>,  \* 627 "USB-PRODUCT_STR2"
    <<"U","S","B","-","P","R","O","D","U","C","T","_","S","T","R","3">>,  \* 628 "USB-PRODUCT_STR3"
    <<"U","S","B","-","S","E","R","I","A","L","_","N","O","_","S","T","R","0">>,  \* 629 "USB-SERIAL_NO_STR0"
    <<"U","S","B","-","S","E","R","I","A","L","_","N","O","_","S","T","R","1">>,  \* 630 "USB-SERIAL_NO_STR1"
    <<"U","S","B","-","S","E","R","I","A","L","_","N","O","_","S","T","R","2">>,  \* 631 "USB-SERIAL_NO_STR2"
    <<"U","S","B","-","S","E","R","I","A","L","_","N","O","_","S","T","R","3">>,  \* 632 "USB-SERIAL_NO_STR3"
    <<"U","S","B","I","N","P","R","O","T","-","U","B","X">>,  \* 633 "USBINPROT-UBX"
    <<"U","S","B","I","N","P","R","O","T","-","N","M","E","A">>,  \* 634 "USBINPROT-NMEA"
    <<"U","S","B","I","N","P","R","O","T","-","R","T","C","M","2","X">>,  \* 635 "USBINPROT-RTCM2X"
    <<"U","S","B","I","N","P","R","O","T","-","R","T","C","M","3","X">>,  \* 636 "USBINPROT-RTCM3X"
    <<"U","S","B","O","U","T","P","R","O","T","-","U","B","X">>,  \* 637 "USBOUTPROT-UBX"
    <<"U","S","B","O","U","T","P","R","O","T","-","N","M","E","A">>,  \* 638 "USBOUTPROT-NMEA"
    <<"U","S","B","O","U","T","P","R","O","T","-","R","T","C","M","3","X">>,  \* 639 "USBOUTPROT-RTCM3X"
    <<>>  \* 640 ""
  >>

\* vid[]: 32-bit key id of each configuration key, same order as vcmd[].
vid ==
  <<
    \h20240011, \h10240012, \h20240013, \h20240014, \h10240020, \h40240021, \h40240022, \h40240023,
    \h10240030, \h40240031, \h40240032, \h40240033, \h10240040, \h40240041, \h40240042, \h40240043,
    \h10240050, \h40240051, \h40240052, \h40240053, \h10a3002e, \h10a3002f, \h10a30030, \h10a30031,
    \h10a30032, \h10a30033, \h10a30034, \h10a30035, \h20a30036, \h20a30037, \h20a30038, \h20510001,
    \h10510002, \h10510003, \h10710001, \h10710002, \h10710003, \h10710004, \h10720001, \h10720002,
    \h10720004, \h20920001, \h20920002, \h20920003, \h20920004, \h20920005, \h20920006, \h20920007,
    \h20920008, \h20920009, \h2092000a, \h20410001, \h20410002, \h1041000d, \h20410010, \h10410013,
    \h10de0002, \h10de0003, \h10de0004, \h30de0005, \h30de0006, \h30de0007, \h40de0008, \h20250038,
    \h3025003b, \h209100a6, \h209100aa, \h209100a7, \h209100a8, \h209100a9, \h209100dd, \h209100e1,
    \h209100de, \h209100df, \h209100e0, \h209100ba, \h209100be, \h209100bb, \h209100bc, \h209100bd,
    \h209100c9, \h209100cd, \h209100ca, \h209100cb, \h209100cc, \h209100b5, \h209100b9, \h209100b6,
    \h209100b7, \h209100b8, \h209100ce, \h209100d2, \h209100cf, \h209100d0, \h209100d1, \h209100bf,
    \h209100c3, \h209100c0, \h209100c1, \h209100c2, \h209100d3, \h209100d7, \h209100d4, \h209100d5,
    \h209100d6, \h209100c4, \h209100c8, \h209100c5, \h209100c6, \h209100c7, \h209100ab, \h209100af,
    \h209100ac, \h209100ad, \h209100ae, \h209100e7, \h209100eb, \h209100e8, \h209100e9, \h209100ea,
    \h209100b0, \h209100b4, \h209100b1, \h209100b2, \h209100b3, \h209100d8, \h209100dc, \h209100d9,
    \h209100da, \h209100db, \h209100ec, \h209100f0, \h209100ed, \h209100ee, \h209100ef, \h209100f1,
    \h209100f5, \h209100f2, \h209100f3, \h209100f4, \h209100f6, \h209100fa, \h209100f7, \h209100f8,
    \h209100f9, \h209102bd, \h209102c1, \h209102be, \h209102bf, \h209102c0, \h2091035e, \h20910362,
    \h2091035f, \h20910360, \h20910361, \h209102cc, \h209102d0, \h209102cd, \h209102ce, \h209102cf,
    \h209102d1, \h20910367, \h20910364, \h20910365, \h20910366, \h209102d5, \h209102d2, \h209102d3,
    \h209102d4, \h20910368, \h2091036c, \h20910369, \h2091036a, \h2091036b, \h20910318, \h2091031c,
    \h20910319, \h2091031a, \h2091031b, \h2091036d, \h20910371, \h2091036e, \h2091036f, \h20910370,
    \h209102d6, \h209102da, \h209102d7, \h209102d8, \h209102d9, \h20910303, \h20910307, \h20910304,
    \h20910305, \h20910306, \h209102fe, \h20910302, \h209102ff, \h20910300, \h20910301, \h20910381,
    \h20910385, \h20910382, \h20910383, \h20910384, \h20910259, \h2091025d, \h2091025a, \h2091025b,
    \h2091025c, \h2091034f, \h20910353, \h20910350, \h20910351, \h20910352, \h209101b9, \h209101bd,
    \h209101ba, \h209101bb, \h209101bc, \h20910354, \h20910358, \h20910355, \h20910356, \h20910357,
    \h209101b4, \h209101b8, \h209101b5, \h209101b6, \h209101b7, \h209101a5, \h209101a9, \h209101a6,
    \h209101a7, \h209101a8, \h20910196, \h2091019a, \h20910197, \h20910198, \h20910199, \h20910359,
    \h2091035d, \h2091035a, \h2091035b, \h2091035c, \h209101a0, \h209101a4, \h209101a1, \h209101a2,
    \h209101a3, \h20910187, \h2091018b, \h20910188, \h20910189, \h2091018a, \h2091019b, \h2091019f,
    \h2091019c, \h2091019d, \h2091019e, \h2091019b, \h2091019f, \h2091019c, \h2091019d, \h2091019e,
    \h20910065, \h20910069, \h20910066, \h20910067, \h20910068, \h20910038, \h2091003c, \h20910039,
    \h2091003a, \h2091003b, \h2091015f, \h20910163, \h20910160, \h20910161, \h20910162, \h209100a1,
    \h209100a5, \h209100a2, \h209100a3, \h209100a4, \h2091002e, \h20910032, \h2091002f, \h20910030,
    \h20910031, \h20910033, \h20910037, \h20910034, \h20910035, \h20910036, \h2091007e, \h20910082,
    \h2091007f, \h20910080, \h20910081, \h20910010, \h20910014, \h20910011, \h20910012, \h20910013,
    \h20910024, \h20910028, \h20910025, \h20910026, \h20910027, \h20910029, \h2091002d, \h2091002a,
    \h2091002b, \h2091002c, \h20910006, \h2091000a, \h20910007, \h20910008, \h20910009, \h2091008d,
    \h20910091, \h2091008e, \h2091008f, \h20910090, \h20910015, \h20910019, \h20910016, \h20910017,
    \h20910018, \h2091006a, \h2091006e, \h2091006b, \h2091006c, \h2091006d, \h20910345, \h20910349,
    \h20910346, \h20910347, \h20910348, \h2091001a, \h2091001e, \h2091001b, \h2091001c, \h2091001d,
    \h20910088, \h2091008c, \h20910089, \h2091008a, \h2091008b, \h20910051, \h20910055, \h20910052,
    \h20910053, \h20910054, \h20910056, \h2091005a, \h20910057, \h20910058, \h20910059, \h2091004c,
    \h20910050, \h2091004d, \h2091004e, \h2091004f, \h20910047, \h2091004b, \h20910048, \h20910049,
    \h2091004a, \h20910060, \h20910064, \h20910061, \h20910062, \h20910063, \h2091005b, \h2091005f,
    \h2091005c, \h2091005d, \h2091005e, \h2091003d, \h20910041, \h2091003e, \h2091003f, \h20910040,
    \h20910042, \h20910046, \h20910043, \h20910044, \h20910045, \h20910204, \h20910208, \h20910205,
    \h20910206, \h20910207, \h209102a4, \h209102a8, \h209102a5, \h209102a6, \h209102a7, \h2091025e,
    \h20910262, \h2091025f, \h20910260, \h20910261, \h20910268, \h2091026c, \h20910269, \h2091026a,
    \h2091026b, \h20910231, \h20910235, \h20910232, \h20910233, \h20910234, \h20910097, \h2091009b,
    \h20910098, \h20910099, \h2091009a, \h20910178, \h2091017c, \h20910179, \h2091017a, \h2091017b,
    \h2091017d, \h20910181, \h2091017e, \h2091017f, \h20910180, \h20910092, \h20910096, \h20910093,
    \h20910094, \h20910095, \h20140011, \h20110011, \h10110013, \h30110017, \h10110019, \h2011001c,
    \h20110021, \h10110025, \h10110061, \h50110062, \h50110063, \h40110064, \h40110065, \h40110066,
    \h40110067, \h40110068, \h40110069, \h4011006a, \h201100a1, \h201100a2, \h201100a3, \h201100a4,
    \h201100aa, \h201100ab, \h301100b1, \h301100b2, \h301100b3, \h301100b4, \h301100b5, \h401100c1,
    \h401100c2, \h201100c4, \h20930001, \h20930002, \h10930003, \h10930004, \h10930005, \h10930006,
    \h20930007, \h10930011, \h10930012, \h10930015, \h10930016, \h10930017, \h10930021, \h10930022,
    \h10930023, \h10930024, \h10930025, \h10930026, \h20930031, \h20930032, \h30930033, \h10220001,
    \h10220002, \h10220003, \h10220004, \h20220005, \h20220021, \h20220022, \h20220032, \h20220031,
    \h30210001, \h30210002, \h20210003, \h10c70001, \h10c70002, \h20c70003, \h50c70004, \h50c70005,
    \h50c70006, \h50c70007, \h10360002, \h10360003, \h10360004, \h10360005, \h50360006, \h1031001f,
    \h10310001, \h10310003, \h10310020, \h10310005, \h10310021, \h10310007, \h1031000a, \h10310022,
    \h1031000d, \h1031000e, \h10310024, \h10310012, \h10310014, \h10310015, \h10310025, \h10310018,
    \h1031001a, \h20640001, \h10640002, \h10640003, \h10640005, \h10640006, \h10790001, \h10790002,
    \h10790003, \h10790004, \h107a0001, \h107a0002, \h107a0004, \h20030001, \h20030002, \h40030003,
    \h40030004, \h40030005, \h20030006, \h20030007, \h20030008, \h40030009, \h4003000a, \h4003000b,
    \h2003000c, \h2003000d, \h2003000e, \h4003000f, \h40030010, \h40030011, \h20050023, \h20050030,
    \h30050001, \h40050002, \h40050003, \h40050024, \h40050025, \h40050004, \h40050005, \h5005002a,
    \h5005002b, \h40050006, \h10050007, \h10050008, \h10050009, \h1005000a, \h1005000b, \h2005000c,
    \h4005000d, \h4005000e, \h40050026, \h40050027, \h4005000f, \h40050010, \h5005002c, \h5005002d,
    \h40050011, \h10050012, \h10050013, \h10050014, \h10050015, \h10050016, \h20050017, \h40520001,
    \h20520002, \h20520003, \h20520004, \h10520005, \h10730001, \h10730002, \h10730003, \h10730004,
    \h10740001, \h10740002, \h10740004, \h40530001, \h20530002, \h20530003, \h20530004, \h10530005,
    \h10530006, \h10750001, \h10750002, \h10750003, \h10750004, \h10760001, \h10760002, \h10760004,
    \h10650001, \h10650002, \h3065000a, \h3065000b, \h3065000c, \h5065000d, \h5065000e, \h5065000f,
    \h50650010, \h50650011, \h50650012, \h50650013, \h50650014, \h50650015, \h50650016, \h50650017,
    \h50650018, \h10770001, \h10770002, \h10770003, \h10770004, \h10780001, \h10780002, \h10780004
  >>

\* vprm[]: value type of each configuration key, same order as vcmd[].
vprm ==
  <<
    FU1, FU1, FU1, FU1, FU1, FI4, FI4, FU4, FU1, FI4, FI4, FU4, FU1, FI4, FI4, FU4,
    FU1, FI4, FI4, FU4, FU1, FU1, FU1, FU1, FU1, FU1, FU1, FU1, FU1, FU1, FU1, FU1,
    FU1, FU1, FU1, FU1, FU1, FU1, FU1, FU1, FU1, FU1, FU1, FU1, FU1, FU1, FU1, FU1,
    FU1, FU1, FU1, FU1, FU1, FU1, FU1, FU1, FU1, FU1, FU1, FU2, FU2, FU2, FU4, FU1,
    FU2, FU1, FU1, FU1, FU1, FU1, FU1, FU1, FU1, FU1, FU1, FU1, FU1, FU1, FU1, FU1,
    FU1, FU1, FU1, FU1, FU1, FU1, FU1, FU1, FU1, FU1, FU1, FU1, FU1, FU1, FU1, FU1,
    FU1, FU1, FU1, FU1, FU1, FU1, FU1, FU1, FU1, FU1, FU1, FU1, FU1, FU1, FU1, FU1,
    FU1, FU1, FU1, FU1, FU1, FU1, FU1, FU1, FU1, FU1, FU1, FU1, FU1, FU1, FU1, FU1,
    FU1, FU1, FU1, FU1, FU1, FU1, FU1, FU1, FU1, FU1, FU1, FU1, FU1, FU1, FU1, FU1,
    FU1, FU1, FU1, FU1, FU1, FU1, FU1, FU1, FU1, FU1, FU1, FU1, FU1, FU1, FU1, FU1,
    FU1, FU1, FU1, FU1, FU1, FU1, FU1, FU1, FU1, FU1, FU1, FU1, FU1, FU1, FU1, FU1,
    FU1, FU1, FU1, FU1, FU1, FU1, FU1, FU1, FU1, FU1, FU1, FU1, FU1, FU1, FU1, FU1,
    FU1, FU1, FU1, FU1, FU1, FU1, FU1, FU1, FU1, FU1, FU1, FU1, FU1, FU1, FU1, FU1,
    FU1, FU1, FU1, FU1, FU1, FU1, FU1, FU1, FU1, FU1, FU1, FU1, FU1, FU1, FU1, FU1,
    FU1, FU1, FU1, FU1, FU1, FU1, FU1, FU1, FU1, FU1, FU1, FU1, FU1, FU1, FU1, FU1,
    FU1, FU1, FU1, FU1, FU1, FU1, FU1, FU1, FU1, FU1, FU1, FU1, FU1, FU1, FU1, FU1,
    FU1, FU1, FU1, FU1, FU1, FU1, FU1, FU1, FU1, FU1, FU1, FU1, FU1, FU1, FU1, FU1,
    FU1, FU1, FU1, FU1, FU1, FU1, FU1, FU1, FU1, FU1, FU1, FU1, FU1, FU1, FU1, FU1,
    FU1, FU1, FU1, FU1, FU1, FU1, FU1, FU1, FU1, FU1, FU1, FU1, FU1, FU1, FU1, FU1,
    FU1, FU1, FU1, FU1, FU1, FU1, FU1, FU1, FU1, FU1, FU1, FU1, FU1, FU1, FU1, FU1,
    FU1, FU1, FU1, FU1, FU1, FU1, FU1, FU1, FU1, FU1, FU1, FU1, FU1, FU1, FU1, FU1,
    FU1, FU1, FU1, FU1, FU1, FU1, FU1, FU1, FU1, FU1, FU1, FU1, FU1, FU1, FU1, FU1,
    FU1, FU1, FU1, FU1, FU1, FU1, FU1, FU1, FU1, FU1, FU1, FU1, FU1, FU1, FU1, FU1,
    FU1, FU1, FU1, FU1, FU1, FU1, FU1, FU1, FU1, FU1, FU1, FU1, FU1, FU1, FU1, FU1,
    FU1, FU1, FU1, FU1, FU1, FU1, FU1, FU1, FU1, FU1, FU1, FU1, FU1, FU1, FU1, FU1,
    FU1, FU1, FU1, FU1, FU1, FU1, FU1, FU1, FU1, FU1, FU1, FU1, FU1, FU1, FU1, FU1,
    FU1, FU1, FU1, FU1, FU1, FU1, FU1, FU1, FU1, FU1, FU1, FU1, FU1, FU1, FU1, FU1,
    FU1, FU1, FU1, FU1, FU1, FU2, FU1, FU1, FU1, FU1, FU1, FR8, FR8, FR4, FR4, FR4,
    FR4, FR4, FR4, FR4, FU1, FU1, FU1, FI1, FU1, FU1, FU2, FU2, FU2, FU2, FU2, FI4,
    FU4, FU1, FU1, FU1, FU1, FU1, FU1, FU1, FU1, FU1, FU1, FU1, FU1, FU1, FU1, FU1,
    FU1, FU1, FU1, FU1, FU1, FU1, FU2, FU1, FU1, FU1, FU1, FU1, FU1, FU1, FU1, FU1,
    FU2, FU2, FU1, FU1, FU1, FU1, FU8, FU8, FU8, FU8, FU1, FU1, FU1, FU1, FU8, FU1,
    FU1, FU1, FU1, FU1, FU1, FU1, FU1, FU1, FU1, FU1, FU1, FU1, FU1, FU1, FU1, FU1,
    FU1, FU1, FU1, FU1, FU1, FU1, FU1, FU1, FU1, FU1, FU1, FU1, FU1, FU1, FU1, FI4,
    FI4, FI4, FI1, FI1, FI1, FI4, FI4, FI4, FI1, FI1, FI1, FU4, FU4, FU4, FU1, FU1,
    FI2, FU4, FU4, FU4, FU4, FU4, FU4, FR8, FR8, FI4, FU1, FU1, FU1, FU1, FU1, FU1,
    FU4, FU4, FU4, FU4, FU4, FU4, FR8, FR8, FI4, FU1, FU1, FU1, FU1, FU1, FU1, FU4,
    FU1, FU1, FU1, FU1, FU1, FU1, FU1, FU1, FU1, FU1, FU1, FU4, FU1, FU1, FU1, FU1,
    FU1, FU1, FU1, FU1, FU1, FU1, FU1, FU1, FU1, FU1, FU2, FU2, FU2, FU8, FU8, FU8,
    FU8, FU8, FU8, FU8, FU8, FU8, FU8, FU8, FU8, FU1, FU1, FU1, FU1, FU1, FU1, FU1
  >>

\* ---- C library functions, as far as ubx_gen_cmd uses them ---------------------
INT_MAX == 2147483647
INT_MIN == -INT_MAX - 1

Min(S) == CHOOSE x \in S : \A y \in S : x <= y

Pow2(k) == 2^k

DigitVal ==
  [c \in {"0","1","2","3","4","5","6","7","8","9"} |->
     CASE c = "0" -> 0 [] c = "1" -> 1 [] c = "2" -> 2 [] c = "3" -> 3
       [] c = "4" -> 4 [] c = "5" -> 5 [] c = "6" -> 6 [] c = "7" -> 7
       [] c = "8" -> 8 [] c = "9" -> 9]

HexVal ==
  [c \in DOMAIN DigitVal \cup {"A","B","C","D","E","F","a","b","c","d","e","f"} |->
     CASE c \in DOMAIN DigitVal -> DigitVal[c]
       [] c \in {"A","a"} -> 10 [] c \in {"B","b"} -> 11 [] c \in {"C","c"} -> 12
       [] c \in {"D","d"} -> 13 [] c \in {"E","e"} -> 14 [] c \in {"F","f"} -> 15]

isspace(c) == c \in {" ", "\t", "\n", "\r", "\f"}

\* strcmp and strncmp: 0 iff equal; the callers only test for zero.
strcmp(a, b) == IF a = b THEN 0 ELSE 1

strncmp(a, b, num) ==
  IF SubSeq(a, 1, IF Len(a) < num THEN Len(a) ELSE num)
       = SubSeq(b, 1, IF Len(b) < num THEN Len(b) ELSE num)
  THEN 0 ELSE 1

\* first index >= i of s that holds no white space
RECURSIVE skipspace(_, _)
skipspace(s, i) ==
  IF i <= Len(s) /\ isspace(s[i]) THEN skipspace(s, i + 1) ELSE i

\* strtol(s, NULL, 10) from index i on: digits are accumulated until the first
\* non-digit; -1 stands for a magnitude beyond LONG_MAX (long is 32 bits on the
\* target), where strtol saturates.
RECURSIVE strtol_acc(_, _, _)
strtol_acc(s, i, acc) ==
  IF i > Len(s) \/ s[i] \notin DOMAIN DigitVal THEN acc
  ELSE IF acc > (INT_MAX - DigitVal[s[i]]) \div 10 THEN -1
  ELSE strtol_acc(s, i + 1, acc * 10 + DigitVal[s[i]])

\* atoi that reads no sign: a token with a sign converts to 0
atoi_bug(s) ==
  LET mag == strtol_acc(s, skipspace(s, 1), 0)
  IN IF mag = -1 THEN INT_MAX ELSE mag

\* atoi(s) == (int)strtol(s, NULL, 10)
atoi(s) ==
  LET i0 == skipspace(s, 1)
      neg == i0 <= Len(s) /\ s[i0] = "-"
      i1 == IF i0 <= Len(s) /\ s[i0] \in {"-", "+"} THEN i0 + 1 ELSE i0
      mag == strtol_acc(s, i1, 0)
  IN IF neg THEN (IF mag = -1 THEN INT_MIN ELSE -mag)
     ELSE (IF mag = -1 THEN INT_MAX ELSE mag)

\* a uint32_t shifted left by one hex digit, d added; the 32-bit pattern is held
\* as the int with the same bits
HexShift(u, d) ==
  LET lo == u % Pow2(28)
  IN IF lo >= Pow2(27) THEN ((lo - Pow2(27)) * 16 + d) - Pow2(30) - Pow2(30)
     ELSE lo * 16 + d

\* the %lX conversion: hex digits from index i on; [n, cnt, ovf] are the
\* value, the number of digits read and whether the value left 32 bits
RECURSIVE hex_acc(_, _, _, _, _)
hex_acc(s, i, acc, cnt, ovf) ==
  IF i > Len(s) \/ s[i] \notin DOMAIN HexVal
  THEN [n |-> acc, cnt |-> cnt, ovf |-> ovf]
  ELSE hex_acc(s, i + 1, HexShift(acc, HexVal[s[i]]), cnt + 1,
               ovf \/ acc < 0 \/ acc >= Pow2(28))

\* sscanf(s, "0x%lX", &n): [ok, n]; ok iff the conversion count is 1
sscanf_0x_lX(s) ==
  IF strncmp(s, <<"0","x">>, 2) # 0 THEN [ok |-> FALSE, n |-> 0]
  ELSE LET i0 == skipspace(s, 3)
           neg == i0 <= Len(s) /\ s[i0] = "-"
           i1 == IF i0 <= Len(s) /\ s[i0] \in {"-", "+"} THEN i0 + 1 ELSE i0
           pfx == /\ i1 + 2 <= Len(s)
                  /\ s[i1] = "0"
                  /\ s[i1 + 1] \in {"x", "X"}
                  /\ s[i1 + 2] \in DOMAIN HexVal
           i2 == IF pfx THEN i1 + 2 ELSE i1
           r == hex_acc(s, i2, 0, 0, FALSE)
           u == IF r.ovf THEN -1 ELSE r.n
       IN IF r.cnt = 0 THEN [ok |-> FALSE, n |-> 0]
          ELSE [ok |-> TRUE,
                n |-> IF neg /\ u # INT_MIN THEN -u ELSE u]

\* ---- convert string to integer ------------------------------------------------
stoi(s) ==
  LET r == sscanf_0x_lX(s)
  IN IF r.ok THEN r.n ELSE atoi(s)

\* atof(s), for the literals the model feeds to R4/R8 fields: an optional sign
\* and an integer in decimal (below 2^31) or 0x-hex notation (below 2^32).  The
\* value is [neg, mag]; a hex magnitude of 2^31 or more is held as the int with
\* the same 32 bits (mag < 0 stands for mag + 2^32); a string with no leading
\* number converts to +0.
atof(s) ==
  LET i0 == skipspace(s, 1)
      neg == i0 <= Len(s) /\ s[i0] = "-"
      i1 == IF i0 <= Len(s) /\ s[i0] \in {"-", "+"} THEN i0 + 1 ELSE i0
      hex == /\ i1 + 2 <= Len(s)
             /\ s[i1] = "0"
             /\ s[i1 + 1] \in {"x", "X"}
             /\ s[i1 + 2] \in DOMAIN HexVal
  IN [neg |-> neg,
      mag |-> IF hex THEN hex_acc(s, i1 + 2, 0, 0, FALSE).n
              ELSE strtol_acc(s, i1, 0)]

\* ---- integer conversions of C -------------------------------------------------
\* (uint8_t)v, (uint16_t)v of an int v
U8(v) == v % 256
U16(v) == v % 65536
\* (int8_t)v, (int16_t)v of an int v
I8(v) == IF v % 256 >= 128 THEN (v % 256) - 256 ELSE v % 256
I16(v) == IF v % 65536 >= 32768 THEN (v % 65536) - 65536 ELSE v % 65536

\* the k lowest bytes of the two's complement pattern of v, lowest first
LE(v, k) == [b \in 1..k |-> (v \div (256 ^ (b - 1))) % 256]

\* position of the highest set bit of the magnitude m # 0
ilog2(m) ==
  IF m < 0 THEN 31
  ELSE CHOOSE e \in 0..30 : Pow2(e) <= m /\ (e = 30 \/ m < Pow2(e + 1))

\* the magnitude m without its highest set bit
FracOf(m) == IF m < 0 THEN (m + INT_MAX) + 1 ELSE m - Pow2(ilog2(m))

\* The float and double conversions are staged: every stage takes the values
\* of the stage before as parameters.  A magnitude is 2^e0 + f with f < 2^e0.
\* the magnitude shifted so that its highest bit is bit 23, before rounding
R4Quot(f, sh) ==
  Pow2(23) + (IF sh <= 0 THEN f * Pow2(-sh) ELSE f \div Pow2(sh))

\* round to nearest, ties to even: whether the bits shifted out round up
R4Up(f, sh) ==
  /\ sh > 0
  /\ \/ f % Pow2(sh) > Pow2(sh - 1)
     \/ (f % Pow2(sh) = Pow2(sh - 1) /\ R4Quot(f, sh) % 2 = 1)

\* the 24-bit significand after rounding (2^24 when the rounding carries)
R4Mant(f, sh) == R4Quot(f, sh) + (IF R4Up(f, sh) THEN 1 ELSE 0)

\* exponent and fraction fields of the float with highest bit e0, significand q1
R4Bits(e0, q1) ==
  IF q1 = Pow2(24) THEN (127 + e0 + 1) * Pow2(23)
  ELSE (127 + e0) * Pow2(23) + (q1 - Pow2(23))

R4Sign(b, neg) == <<b[1], b[2], b[3], b[4] + (IF neg THEN 128 ELSE 0)>>

R4Norm(r, e0) ==
  R4Sign(LE(R4Bits(e0, R4Mant(FracOf(r.mag), e0 - 23)), 4), r.neg)

\* the 4 bytes of the float nearest to r (round to nearest, ties to even)
R4Bytes(r) ==
  IF r.mag = 0 THEN <<0, 0, 0, IF r.neg THEN 128 ELSE 0>>
  ELSE R4Norm(r, ilog2(r.mag))

\* the high 32 bits of the double with exponent e and fraction f below 2^e
R8Hi(e, f) ==
  (1023 + e) * Pow2(20)
    + (IF e <= 20 THEN f * Pow2(20 - e) ELSE f \div Pow2(e - 20))

\* bits 16..31 of the low 32 bits (bits 0..15 are zero for an integer below 2^32)
R8Lo(e, f) == IF e <= 20 THEN 0 ELSE (f % Pow2(e - 20)) * Pow2(36 - e)

R8Pack(hi, lo, neg) ==
  <<0, 0, lo[1], lo[2], hi[1], hi[2], hi[3], hi[4] + (IF neg THEN 128 ELSE 0)>>

R8Norm(r, e) ==
  R8Pack(LE(R8Hi(e, FracOf(r.mag)), 4), LE(R8Lo(e, FracOf(r.mag)), 2), r.neg)

\* the 8 bytes of the double r (an integer below 2^32 is exact)
R8Bytes(r) ==
  IF r.mag = 0 THEN <<0, 0, 0, 0, 0, 0, 0, IF r.neg THEN 128 ELSE 0>>
  ELSE R8Norm(r, ilog2(r.mag))

\* ASCII codes of the characters the model's tokens are made of
Ord ==
  [c \in {" ", "-", "_", "0", "1", "2", "3", "4", "5", "6", "7", "8", "9",
          "A", "B", "C", "D", "E", "F", "G", "H", "I", "J", "K", "L", "M",
          "N", "O", "P", "Q", "R", "S", "T", "U", "V", "W", "X", "Y", "Z",
          "a", "b", "c", "d", "e", "f", "x"} |->
     CASE c = " " -> 32 [] c = "-" -> 45 [] c = "_" -> 95
       [] c \in DOMAIN DigitVal -> 48 + DigitVal[c]
       [] c \in {"A","B","C","D","E","F"} -> 55 + HexVal[c]
       [] c = "G" -> 71 [] c = "H" -> 72 [] c = "I" -> 73 [] c = "J" -> 74
       [] c = "K" -> 75 [] c = "L" -> 76 [] c = "M" -> 77 [] c = "N" -> 78
       [] c = "O" -> 79 [] c = "P" -> 80 [] c = "Q" -> 81 [] c = "R" -> 82
       [] c = "S" -> 83 [] c = "T" -> 84 [] c = "U" -> 85 [] c = "V" -> 86
       [] c = "W" -> 87 [] c = "X" -> 88 [] c = "Y" -> 89 [] c = "Z" -> 90
       [] c \in {"a","b","c","d","e","f"} -> 87 + HexVal[c]
       [] c = "x" -> 120]

\* ---- writes through the cursor q ----------------------------------------------
\* The memory state of one call is m = [buff, q, wend]: the output buffer, the
\* write cursor q (offset from buff) and the end of the highest write so far.
\* A write beyond the capacity of the buffer leaves the buffer as it is.
Poke(m, p, bytes) ==
  LET cap == Len(m.buff)
      fit == IF p >= cap THEN 0
             ELSE IF p + Len(bytes) > cap THEN cap - p ELSE Len(bytes)
  IN [m EXCEPT !.buff = IF fit = 0 THEN m.buff
                        ELSE SubSeq(m.buff, 1, p) \o SubSeq(bytes, 1, fit)
                               \o SubSeq(m.buff, p + fit + 1, cap),
               !.wend = IF p + Len(bytes) > m.wend THEN p + Len(bytes)
                        ELSE m.wend]

Adv(m, k) == [m EXCEPT !.q = m.q + k]

\* ---- set fields (little-endian) -----------------------------------------------
setU1(m, p, u) == Poke(m, p, <<u>>)
setU2(m, p, u) == Poke(m, p, LE(u, 2))
\* setU4 storing the highest byte first
setU4_bug(m, p, u) == Poke(m, p, [b \in 1..4 |-> LE(u, 4)[5 - b]])
setU4(m, p, u) == Poke(m, p, LE(u, 4))
setI1(m, p, i) == Poke(m, p, <<U8(i)>>)
setI2(m, p, i) == Poke(m, p, LE(i, 2))
setI4(m, p, i) == Poke(m, p, LE(i, 4))
setR4(m, p, r) == Poke(m, p, R4Bytes(r))
setR8(m, p, r) == Poke(m, p, R8Bytes(r))

\* sprintf that fills the field with zero bytes after the string
sprintf_S32_zeros(m, p, s) ==
  Poke(m, p, [i \in 1..33 |-> IF i <= Len(s) /\ i <= 32 THEN Ord[s[i]] ELSE 0])

\* sprintf with the format "%-32s": s is padded to 32 but not cut at 32
sprintf_S32_long(m, p, s) ==
  Poke(m, p, [i \in 1..((IF Len(s) > 32 THEN Len(s) ELSE 32) + 1) |->
                IF i <= Len(s) THEN Ord[s[i]]
                ELSE IF i <= 32 THEN 32 ELSE 0])

\* sprintf with the format "%32.32s": the string at the right of the field
sprintf_S32_right(m, p, s) ==
  Poke(m, p, [i \in 1..33 |->
                IF i = 33 THEN 0
                ELSE IF Len(s) >= 32 THEN Ord[s[i]]
                ELSE IF i > 32 - Len(s) THEN Ord[s[i - (32 - Len(s))]] ELSE 32])

\* sprintf((char*)q, "%-32.32s", s): the first 32 characters of s, padded with
\* spaces to 32, and the terminating zero
sprintf_S32(m, p, s) ==
  Poke(m, p, [i \in 1..33 |-> IF i = 33 THEN 0
                              ELSE IF i <= Len(s) THEN Ord[s[i]] ELSE 32])

\* ---- checksum -----------------------------------------------------------------
\* One pass of the loop body: cka += buff[i]; ckb += cka (both uint8_t).
ck_step(ck, byte) ==
  [cka |-> (ck.cka + byte) % 256, ckb |-> (ck.ckb + ((ck.cka + byte) % 256)) % 256]

\* for (i = 2; i < len - 2; i++) { cka += buff[i]; ckb += cka; }
\* The loop is unrolled in runs of 16 passes, so that the depth of the
\* evaluation stays small: ck_run makes the passes i .. stop-1, cksum_loop
\* makes the runs one after the other.
RECURSIVE ck_run(_, _, _, _)
ck_run(bytes, i, stop, ck) ==
  IF i < stop /\ ck.cka \in 0..255
  THEN ck_run(bytes, i + 1, stop, ck_step(ck, bytes[i + 1]))
  ELSE ck

RECURSIVE cksum_loop(_, _, _, _)
cksum_loop(bytes, i, len, ck) ==
  IF i < len - 2 /\ ck.cka \in 0..255
  THEN LET stop == IF i + 16 < len - 2 THEN i + 16 ELSE len - 2
       IN cksum_loop(bytes, stop, len, ck_run(bytes, i, stop, ck))
  ELSE ck

same_checksum(bytes, len, ck) == ck.cka = bytes[len - 1] /\ ck.ckb = bytes[len]

check_checksum(bytes, len) ==
  same_checksum(bytes, len, cksum_loop(bytes, 2, len, [cka |-> 0, ckb |-> 0]))

\* buff[len-2] = cka; buff[len-1] = ckb;
put_checksum(m, len, ck) == Poke(Poke(m, len - 2, <<ck.cka>>), len - 1, <<ck.ckb>>)

\* set_checksum with the sum started at the sync bytes
set_checksum_bug(m, len) ==
  put_checksum(m, len, cksum_loop(m.buff, 0, len, [cka |-> 0, ckb |-> 0]))

set_checksum(m, len) ==
  put_checksum(m, len, cksum_loop(m.buff, 2, len, [cka |-> 0, ckb |-> 0]))

\* ---- tokenizer ----------------------------------------------------------------
\* first index >= i of s that holds no delimiter / that holds a delimiter
skipdelim(s, i) ==
  IF i > Len(s) THEN i
  ELSE CHOOSE j \in i..(Len(s) + 1) :
         (j > Len(s) \/ s[j] # " ") /\ \A l \in i..(j - 1) : s[l] = " "

findelim(s, i) ==
  IF i > Len(s) THEN i
  ELSE CHOOSE j \in i..(Len(s) + 1) :
         (j > Len(s) \/ s[j] = " ") /\ \A l \in i..(j - 1) : s[l] # " "

\* strtok that does not skip the delimiters before a token: every space ends a
\* token, so a run of spaces gives empty tokens
strtok_empty(s, pos) ==
  IF pos > Len(s) THEN [tok |-> NULL, next |-> pos]
  ELSE [tok |-> SubSeq(s, pos, findelim(s, pos) - 1), next |-> findelim(s, pos) + 1]

\* one strtok(.., " ") call scanning s from index pos: the token (NULL when
\* only delimiters are left) and the index at which the next call resumes
strtok(s, pos) ==
  LET b == skipdelim(s, pos)
      e == findelim(s, b)
  IN IF b > Len(s) THEN [tok |-> NULL, next |-> b]
     ELSE [tok |-> SubSeq(s, b, e - 1), next |-> e + 1]

\* for (p = strtok(mbuff, " "); p && narg < 32; p = strtok(NULL, " "))
\*     args[narg++] = p;
\* The loop is made in runs of 8 passes, so that the depth of the evaluation
\* stays small.  tok_run makes at most `left` passes from index pos on; its
\* value is [args, pos, more], more telling that the loop has not ended.
RECURSIVE tok_run(_, _, _, _)
RECURSIVE tok_pass(_, _, _, _)
tok_pass(s, args, r, left) ==
  IF r.tok # NULL /\ Len(args) < MAXARGS
  THEN tok_run(s, r.next, Append(args, r.tok), left - 1)
  ELSE [args |-> args, pos |-> r.next, more |-> FALSE]

tok_run(s, pos, args, left) ==
  IF left = 0 THEN [args |-> args, pos |-> pos, more |-> TRUE]
  ELSE tok_pass(s, args, strtok(s, pos), left)

RECURSIVE tokenize(_, _, _)
RECURSIVE tok_more(_, _)
tok_more(s, t) == IF t.more THEN tokenize(s, t.pos, t.args) ELSE t.args

tokenize(s, pos, args) == tok_more(s, tok_run(s, pos, args, 8))

\* ---- table lookups ------------------------------------------------------------
\* for (i = 0; *tab[i]; i++) if (!strcmp(name, tab[i])) break;
\* the index (from 1) at which the loop stops: the first entry that equals name
\* or is the empty sentinel
lookup(name, tab) ==
  Min({i \in 1..Len(tab) : tab[i] = <<>> \/ strcmp(name, tab[i]) = 0})

\* VALSET sanity check that lets further key/value pairs through
valset_narg_bug(narg) == IF narg >= 7 THEN narg - 2 ELSE 0

\* VALSET sanity check that lets the call go on with narg as it is
valset_narg_keep(narg) == IF narg = 7 THEN narg ELSE 0

\* VALSET sanity check: the adjusted narg, or 0 when the call returns 0
valset_narg(narg) == IF narg = 7 THEN narg - 2 ELSE 0

\* ---- generic field encoder ----------------------------------------------------
\* the switch with the default branch encoding a U2
gen_field_u2(m, t, has, tok) ==
  CASE t = FU1 -> Adv(setU1(m, m.q, IF has THEN U8(stoi(tok)) ELSE 0), 1)
    [] t = FU2 -> Adv(setU2(m, m.q, IF has THEN U16(stoi(tok)) ELSE 0), 2)
    [] t = FU4 -> Adv(setU4(m, m.q, IF has THEN stoi(tok) ELSE 0), 4)
    [] t = FI1 -> Adv(setI1(m, m.q, IF has THEN I8(stoi(tok)) ELSE 0), 1)
    [] t = FI2 -> Adv(setI2(m, m.q, IF has THEN I16(stoi(tok)) ELSE 0), 2)
    [] t = FI4 -> Adv(setI4(m, m.q, IF has THEN stoi(tok) ELSE 0), 4)
    [] t = FR4 -> Adv(setR4(m, m.q, IF has THEN atof(tok)
                                    ELSE [neg |-> FALSE, mag |-> 0]), 4)
    [] t = FR8 -> Adv(setR8(m, m.q, IF has THEN atof(tok)
                                    ELSE [neg |-> FALSE, mag |-> 0]), 8)
    [] t = FS32 -> Adv(sprintf_S32(m, m.q, IF has THEN tok ELSE <<>>), 32)
    [] OTHER -> Adv(setU2(m, m.q, IF has THEN U16(stoi(tok)) ELSE 0), 2)

\* the body of the switch for field type t; has is (j < narg), tok is args[j]
gen_field(m, t, has, tok) ==
  CASE t = FU1 -> Adv(setU1(m, m.q, IF has THEN U8(stoi(tok)) ELSE 0), 1)
    [] t = FU2 -> Adv(setU2(m, m.q, IF has THEN U16(stoi(tok)) ELSE 0), 2)
    [] t = FU4 -> Adv(setU4(m, m.q, IF has THEN stoi(tok) ELSE 0), 4)
    [] t = FI1 -> Adv(setI1(m, m.q, IF has THEN I8(stoi(tok)) ELSE 0), 1)
    [] t = FI2 -> Adv(setI2(m, m.q, IF has THEN I16(stoi(tok)) ELSE 0), 2)
    [] t = FI4 -> Adv(setI4(m, m.q, IF has THEN stoi(tok) ELSE 0), 4)
    [] t = FR4 -> Adv(setR4(m, m.q, IF has THEN atof(tok)
                                    ELSE [neg |-> FALSE, mag |-> 0]), 4)
    [] t = FR8 -> Adv(setR8(m, m.q, IF has THEN atof(tok)
                                    ELSE [neg |-> FALSE, mag |-> 0]), 8)
    [] t = FS32 -> Adv(sprintf_S32(m, m.q, IF has THEN tok ELSE <<>>), 32)
    [] OTHER -> Adv(setU1(m, m.q, IF has THEN U8(stoi(tok)) ELSE 0), 1)

\* for (j = 1; prm[i][j - 1] || j < narg; j++) switch (prm[i][j - 1]) ...
\* i counts the families from 1; the result is [m, j] at loop exit.  The loop
\* is made in runs of 8 passes: gen_run makes at most `left` passes.  (The test
\* of m.q, which is never negative, has the memory state computed pass by pass.)
RECURSIVE gen_run(_, _, _, _, _, _)
gen_run(m, i, j, narg, args, left) ==
  IF left > 0 /\ m.q >= 0 /\ (prm[i][j] # 0 \/ j < narg)
  THEN gen_run(gen_field(m, prm[i][j], j < narg,
                         IF j < narg THEN args[j + 1] ELSE <<>>),
               i, j + 1, narg, args, left - 1)
  ELSE [m |-> m, j |-> j]

RECURSIVE gen_fields(_, _, _, _, _)
RECURSIVE gen_more(_, _, _, _)
gen_more(g, i, narg, args) == gen_fields(g.m, i, g.j, narg, args)

gen_fields(m, i, j, narg, args) ==
  IF prm[i][j] # 0 \/ j < narg
  THEN gen_more(gen_run(m, i, j, narg, args, 8), i, narg, args)
  ELSE [m |-> m, j |-> j]

\* ---- VALSET key and value -----------------------------------------------------
\* the switch with every value written as a 32-byte string
valset_value_s32(m, t, tok) == Adv(sprintf_S32(m, m.q, tok), 32)

\* the switch on vprm[k]; tok is args[j + 1]
valset_value(m, t, tok) ==
  CASE t = FU1 -> Adv(setU1(m, m.q, U8(atoi(tok))), 1)
    [] t = FU2 -> Adv(setU2(m, m.q, U16(atoi(tok))), 2)
    [] t = FU4 -> Adv(setU4(m, m.q, atoi(tok)), 4)
    [] t = FI1 -> Adv(setI1(m, m.q, I8(atoi(tok))), 1)
    [] t = FI2 -> Adv(setI2(m, m.q, I16(atoi(tok))), 2)
    [] t = FI4 -> Adv(setI4(m, m.q, atoi(tok)), 4)
    [] t = FR4 -> Adv(setR4(m, m.q, atof(tok)), 4)
    [] t = FR8 -> Adv(setR8(m, m.q, atof(tok)), 8)
    [] t = FS32 -> Adv(sprintf_S32(m, m.q, tok), 32)
    [] OTHER -> Adv(setU1(m, m.q, U8(atoi(tok))), 1)

\* key prefix test that only asks for four characters
key_has_prefix_bug(tok) == Len(tok) >= 4

\* the key prefix test of the VALSET block
key_has_prefix(tok) == strncmp(tok, <<"C","F","G","-">>, 4) = 0

\* the key lookup of the VALSET block: index (from 1) into vcmd
key_lookup(tok) == lookup(SubSeq(tok, 5, Len(tok)), vcmd)

\* lines 1111-1163, for the key found at index k: the key id, then the value
valset_pair(m, k, tok) ==
  IF vcmd[k] = <<>> THEN [ok |-> FALSE, m |-> m]
  ELSE [ok |-> TRUE,
        m |-> valset_value(Adv(setU4(m, m.q, vid[k]), 4), vprm[k], tok)]

\* the VALSET block; args[j] is the key name, args[j + 1] the value.
\* [ok, m]: ok is FALSE where the block returns 0
valset_block(m, j, args) ==
  IF ~key_has_prefix(args[j + 1]) THEN [ok |-> FALSE, m |-> m]
  ELSE valset_pair(m, key_lookup(args[j + 1]), args[j + 2])

\* ---- frame trailer ------------------------------------------------------------
\* finish with the length field counted from the end of the sub-id
finish_bug(m) ==
  [n |-> m.q + 2, m |-> set_checksum(setU2(m, 4, U16(m.q + 2 - 6)), m.q + 2)]

\* finish storing the low byte of the length only
finish_u1(m) ==
  [n |-> m.q + 2, m |-> set_checksum(setU1(m, 4, U8(m.q + 2 - 8)), m.q + 2)]

\* n = (int)(q - buff) + 2; setU2(buff + 4, n - 8); set_checksum(buff, n)
finish(m) ==
  [n |-> m.q + 2, m |-> set_checksum(setU2(m, 4, U16(m.q + 2 - 8)), m.q + 2)]

\* first token test that compares three characters of the prefix
bad_first_token_bug(args) ==
  Len(args) < 1 \/ strncmp(args[1], <<"C","F","G">>, 3) # 0

\* the first token test: narg < 1 || strncmp(args[0], "CFG-", 4)
bad_first_token(args) ==
  Len(args) < 1 \/ strncmp(args[1], <<"C","F","G","-">>, 4) # 0

\* family lookup that compares only as many characters as the table name has
cmd_lookup_bug(tok) ==
  Min({i \in 1..Len(cmd) :
         cmd[i] = <<>> \/ strncmp(SubSeq(tok, 5, Len(tok)), cmd[i], Len(cmd[i])) = 0})

\* the family lookup: index (from 1) into cmd
cmd_lookup(tok) == lookup(SubSeq(tok, 5, Len(tok)), cmd)

\* ---- generate ublox binary message --------------------------------------------
\* The function is modelled in stages, each stage taking what the code has
\* computed so far as parameters.  The result of every stage is [n, buff, wend]:
\* the returned length, the contents of the output buffer at return and the
\* end of the highest write.
\* return 0, with the buffer as written so far
ret_fail(m) == [n |-> 0, buff |-> m.buff, wend |-> m.wend]

\* return n
ret_frame(f) == [n |-> f.n, buff |-> f.m.buff, wend |-> f.m.wend]

\* the end of the VALSET block and the trailer; v is the result of valset_block
gen_valset(v) == IF ~v.ok THEN ret_fail(v.m) ELSE ret_frame(finish(v.m))

\* after the field loop, g being its result [m, j]
gen_tail(g, isvalset, args) ==
  IF ~isvalset THEN ret_frame(finish(g.m))
  ELSE gen_valset(valset_block(g.m, g.j, args))

\* the VALSET sanity check and the field loop; m1 is the memory after the header
gen_body(m1, i, isvalset, args) ==
  IF isvalset /\ valset_narg(Len(args)) = 0 THEN ret_fail(m1)
  ELSE gen_tail(gen_fields(m1, i, 1,
                           IF isvalset THEN valset_narg(Len(args)) ELSE Len(args),
                           args),
                isvalset, args)

\* header with the class and the sub-id in each other's place
gen_header_swap(m0, i, args) ==
  IF cmd[i] = <<>> THEN ret_fail(m0)
  ELSE gen_body(Adv(Poke(m0, 0, <<UBXSYNC1, UBXSYNC2, id[i], UBXCFG>>), 6),
                i, strcmp(cmd[i], <<"V","A","L","S","E","T">>) = 0, args)

\* the family found at index i: unknown family, or the header
gen_header(m0, i, args) ==
  IF cmd[i] = <<>> THEN ret_fail(m0)
  ELSE gen_body(Adv(Poke(m0, 0, <<UBXSYNC1, UBXSYNC2, UBXCFG, id[i]>>), 6),
                i, strcmp(cmd[i], <<"V","A","L","S","E","T">>) = 0, args)

\* the first token test and the family lookup
gen_args(m0, args) ==
  IF bad_first_token(args) THEN ret_fail(m0)
  ELSE gen_header(m0, cmd_lookup(args[1]), args)

ubx_gen_cmd(line, out) ==
  IF line = NULL \/ out = NULL THEN [n |-> 0, buff |-> out, wend |-> 0]
  ELSE gen_args([buff |-> out, q |-> 0, wend |-> 0], tokenize(line, 1, <<>>))

\* ---- the callers' command lines ------------------------------------------------
\* the tokens of ts separated by single spaces
RECURSIVE Line(_)
Line(ts) ==
  IF ts = <<>> THEN <<>>
  ELSE IF Len(ts) = 1 THEN ts[1]
  ELSE Line(SubSeq(ts, 1, Len(ts) \div 2)) \o <<" ">>
         \o Line(SubSeq(ts, Len(ts) \div 2 + 1, Len(ts)))

CFG == <<"C","F","G","-">>

\* argument tokens enumerated for the generic families
ArgToks ==
  {<<"2","5","6">>,
   <<"-","1","0","0">>,
   <<"a","b">>}

ArgLists == UNION {[1..k -> ArgToks] : k \in 0..MaxArgs}

\* every generic family (all of cmd[] but VALSET and the sentinel) with every
\* argument list
GenericLines ==
  {Line(<<CFG \o cmd[i]>> \o a) : i \in 1..(Len(cmd) - 2), a \in ArgLists}

\* every family with k tokens in all, the arguments being the token 7
Filler == <<"7">>
LongCounts == {8, 9, 31, 32, 33, 34}
LongLines ==
  {Line(<<CFG \o cmd[i]>> \o [j \in 1..(k - 1) |-> Filler]) :
     i \in 1..(Len(cmd) - 1), k \in LongCounts}

\* VALSET lines "CFG-VALSET 0 1 0 0 CFG-<key> <value>"
VALSET == <<"V","A","L","S","E","T">>
ValsetLine(hdr, key, val) == Line(<<CFG \o VALSET>> \o hdr \o <<CFG \o key, val>>)
Hdr0100 == <<<<"0">>, <<"1">>, <<"0">>, <<"0">>>>

\* value tokens enumerated for the sampled keys
ValToks ==
  {<<"0">>,
   <<"1">>,
   <<"2">>,
   <<"2","6">>,
   <<"0","x","1","A">>,
   <<"0","x","0","2">>,
   <<"-","1","0","0">>,
   <<"2","5","5">>,
   <<"2","5","6">>,
   <<"1","0","5","7","6","8","4","4","8","0">>}

\* sampled keys: the keys of the self test and the first key of every other type
KeySample ==
  {<<"T","M","O","D","E","-","M","O","D","E">>,  \* FU1
   <<"T","M","O","D","E","-","P","O","S","_","T","Y","P","E">>,  \* FU1
   <<"T","M","O","D","E","-","L","A","T">>,  \* FI4
   <<"T","M","O","D","E","-","L","O","N">>,  \* FI4
   <<"T","M","O","D","E","-","H","E","I","G","H","T">>,  \* FI4
   <<"G","E","O","F","E","N","C","E","-","F","E","N","C","E","1","_","R","A","D">>,  \* FU4
   <<"L","O","G","F","I","L","T","E","R","-","M","I","N","_","I","N","T","E","R","V","A","L">>,  \* FU2
   <<"N","A","V","S","P","G","-","U","S","R","D","A","T","_","M","A","J","A">>,  \* FR8
   <<"N","A","V","S","P","G","-","U","S","R","D","A","T","_","D","X">>,  \* FR4
   <<"N","A","V","S","P","G","-","I","N","F","I","L","_","M","I","N","E","L","E","V">>,  \* FI1
   <<"R","I","N","V","-","C","H","U","N","K","0">>,  \* FU8
   <<"T","P","-","A","N","T","_","C","A","B","L","E","D","E","L","A","Y">>}  \* FI2

HdrAlt == <<<<"2">>, <<"2","6">>, <<"2","5","5">>, <<"2","5","6">>>>
ValsetLines ==
  {ValsetLine(Hdr0100, k, v) : k \in KeySample, v \in ValToks}
    \cup {ValsetLine(HdrAlt, k, v) :
            k \in {<<"T","M","O","D","E","-","M","O","D","E">>, <<"T","M","O","D","E","-","L","A","T">>},
            v \in {<<"2">>, <<"2","6">>}}
    \cup {ValsetLine(Hdr0100, vcmd[k], <<"1">>) : k \in 1..(Len(vcmd) - 1)}

\* VALSET lines of 1..9 tokens: the first k tokens of a line with two pairs
TwoPairs ==
  <<<<"C","F","G","-","V","A","L","S","E","T">>, <<"0">>, <<"1">>, <<"0">>, <<"0">>, <<"C","F","G","-","T","M","O","D","E","-","M","O","D","E">>, <<"2">>, <<"C","F","G","-","T","M","O","D","E","-","P","O","S","_","T","Y","P","E">>, <<"1">>>>
ValsetCounts == {Line(SubSeq(TwoPairs, 1, k)) : k \in 1..Len(TwoPairs)}

\* VALSET lines whose key token is not a dictionary name with the CFG- prefix
BadKeyToks ==
  {<<"C","F","G","-","N","O","T","-","A","-","K","E","Y">>,
   <<"C","F","G","-">>,
   <<"T","M","O","D","E","-","M","O","D","E">>,
   <<"C","F","G","-","T","M","O","D","E","-","M","O","D">>,
   <<"C","F","G","-","T","M","O","D","E","-","M","O","D","E","X">>,
   <<"c","f","g","-","T","M","O","D","E","-","M","O","D","E">>,
   <<"C","F","G","-","t","m","o","d","e","-","m","o","d","e">>,
   <<"C","F","G","T","M","O","D","E","-","M","O","D","E">>,
   <<"C","F","G">>}
BadKeyLines ==
  {Line(<<CFG \o VALSET>> \o Hdr0100 \o <<k, <<"1">>>>) : k \in BadKeyToks}

\* lines whose family name is not in cmd[]
BadFamilyLines ==
  {Line(<<<<"C","F","G","-","F","O","O">>, <<"1">>, <<"2">>, <<"3">>>>),
   Line(<<<<"C","F","G","-">>>>),
   Line(<<<<"C","F","G","-">>, <<"1">>>>),
   Line(<<<<"C","F","G","-","P","R">>, <<"1">>>>),
   Line(<<<<"C","F","G","-","P","R","T","X">>, <<"1">>>>),
   Line(<<<<"C","F","G","-","p","r","t">>, <<"1">>>>),
   Line(<<<<"C","F","G","-","T","M","O","D","E","4">>, <<"1">>>>),
   Line(<<<<"C","F","G","-","T","M","3">>>>),
   Line(<<<<"C","F","G","-","N","A","V">>, <<"1">>>>),
   Line(<<<<"C","F","G","-","V","A","L","S","E">>, <<"0">>, <<"1">>, <<"0">>, <<"0">>, <<"C","F","G","-","T","M","O","D","E","-","M","O","D","E">>, <<"2">>>>),
   Line(<<<<"C","F","G","-","V","A","L","S","E","T","S">>, <<"0">>, <<"1">>, <<"0">>, <<"0">>, <<"C","F","G","-","T","M","O","D","E","-","M","O","D","E">>, <<"2">>>>),
   Line(<<<<"C","F","G","-","v","a","l","s","e","t">>, <<"0">>, <<"1">>, <<"0">>, <<"0">>, <<"C","F","G","-","T","M","O","D","E","-","M","O","D","E">>, <<"2">>>>),
   Line(<<<<"C","F","G","-","C","F","G","-","R","A","T","E">>, <<"1">>>>)}

\* lines with no token, or whose first token does not begin with CFG-
MalformedLines ==
  {<<>>,  \* ""
   <<" ">>,  \* " "
   <<" "," "," ">>,  \* "   "
   <<"P","R","T"," ","1">>,  \* "PRT 1"
   <<"c","f","g","-","P","R","T"," ","1">>,  \* "cfg-PRT 1"
   <<"C","F","G">>,  \* "CFG"
   <<"C","F","G"," ","1">>,  \* "CFG 1"
   <<"C","F","G","_","P","R","T"," ","1">>,  \* "CFG_PRT 1"
   <<"C","F","G","P","R","T"," ","1">>,  \* "CFGPRT 1"
   <<"X","C","F","G","-","P","R","T"," ","1">>,  \* "XCFG-PRT 1"
   <<"R","A","T","E"," ","C","F","G","-","R","A","T","E"," ","1">>,  \* "RATE CFG-RATE 1"
   <<"0"," ","1">>,  \* "0 1"
   <<"-","C","F","G","-","R","A","T","E">>,  \* "-CFG-RATE"
   <<"C">>}  \* "C"

\* CFG-USB lines "CFG-USB 1 2 0 0 256 26 [vstr [pstr [serino]]]", the serial
\* number being longer than the 32 characters of its field
UsbStrings ==
  <<<<"U","B","L","O","X">>,
    <<"G","N","S","S">>,
    <<"A","B","C","D","E","F","0","1","2","3","4","5","6","7","8","9",
      "A","B","C","D","E","F","0","1","2","3","4","5","6","7","8","9",
      "A","B","C","D","E","F">>>>
UsbLines ==
  {Line(<<CFG \o <<"U","S","B">>, <<"1">>, <<"2">>, <<"0">>, <<"0">>,
          <<"2","5","6">>, <<"2","6">>>> \o SubSeq(UsbStrings, 1, k)) : k \in 0..3}

\* lines with leading, repeated and trailing spaces: lead spaces, the tokens
\* with gap spaces between them, trail spaces
Blanks(k) == [i \in 1..k |-> " "]
RECURSIVE Joined(_, _)
Joined(ts, gap) ==
  IF ts = <<>> THEN <<>>
  ELSE IF Len(ts) = 1 THEN ts[1]
  ELSE ts[1] \o Blanks(gap) \o Joined(Tail(ts), gap)
Spaced(ts, lead, gap, trail) == Blanks(lead) \o Joined(ts, gap) \o Blanks(trail)
SpacedTokens ==
  {<<>>,
   <<CFG \o <<"R","A","T","E">>, <<"2","5","6">>, <<"2","6">>>>,
   <<CFG \o VALSET>> \o Hdr0100 \o <<CFG \o vcmd[1], <<"1">>>>,
   <<CFG \o <<"U","S","B">>, <<"1">>, <<"2">>, <<"0">>, <<"0">>,
     <<"2","5","6">>, <<"2","6">>>> \o UsbStrings}
SpacedLines ==
  {Spaced(ts, s[1], s[2], s[3]) :
     ts \in SpacedTokens, s \in {<<1, 1, 0>>, <<0, 2, 0>>, <<0, 1, 2>>, <<2, 3, 1>>}}

\* ---- the command lines of the firmware (main.c) --------------------------------
\* #define UBX_MSG_LEN 128: the size of the buffers the firmware compiles into
UBX_MSG_LEN == 128

NmeaIds ==
  <<<<"G","G","A">>, <<"G","S","T">>, <<"G","L","L">>, <<"G","S","A">>,
    <<"G","S","V">>, <<"R","M","C">>, <<"V","T","G">>, <<"T","X","T">>>>
UART1 == <<"U","A","R","T","1">>
UART2 == <<"U","A","R","T","2">>
\* the key name MSGOUT-NMEA_ID_<id>_<port>
NmeaKey(nid, port) ==
  <<"M","S","G","O","U","T","-","N","M","E","A","_","I","D","_">> \o nid \o <<"_">> \o port

\* the 8 strings of configure_ublox_uart1, in the order of the calls
Uart1Lines ==
  [k \in 1..8 |->
     ValsetLine(Hdr0100, NmeaKey(NmeaIds[k], UART1), IF k = 1 THEN <<"1">> ELSE <<"0">>)]

\* the 9 strings of configure_ublox_uart2, in the order of the calls
Uart2Lines ==
  <<ValsetLine(Hdr0100, <<"U","A","R","T","2","O","U","T","P","R","O","T","-","N","M","E","A">>, <<"1">>)>>
    \o [k \in 1..8 |->
          ValsetLine(Hdr0100, NmeaKey(NmeaIds[k], UART2), IF k = 3 THEN <<"1">> ELSE <<"0">>)]

FirmwareLines ==
  {Uart1Lines[k] : k \in 1..Len(Uart1Lines)} \cup {Uart2Lines[k] : k \in 1..Len(Uart2Lines)}

Inputs ==
  GenericLines \cup LongLines \cup ValsetLines \cup ValsetCounts
    \cup BadKeyLines \cup BadFamilyLines \cup MalformedLines \cup UsbLines
    \cup SpacedLines \cup FirmwareLines

\* all the tokens of a line, in order: the line is cut at the space nearest to
\* its middle and the tokens of the two parts are put one after the other; a
\* part without a space is one token, or none when it is empty
Spaces(s) == {i \in 1..Len(s) : s[i] = " "}
Dist(a, b) == IF a < b THEN b - a ELSE a - b
Nearest(S, mid) == CHOOSE k \in S : \A j \in S : Dist(k, mid) <= Dist(j, mid)

RECURSIVE Words(_)
WordsCut(s, k) == Words(SubSeq(s, 1, k - 1)) \o Words(SubSeq(s, k + 1, Len(s)))
Words(s) ==
  IF Spaces(s) # {} THEN WordsCut(s, Nearest(Spaces(s), (Len(s) + 1) \div 2))
  ELSE IF s = <<>> THEN <<>> ELSE <<s>>

\* decimal integer tokens and the 0x-hex tokens of the same 32-bit value
HexTwins ==
  {<<<<"2">>, <<"0","x","0","2">>>>,
   <<<<"2","6">>, <<"0","x","1","A">>>>,
   <<<<"2","5","5">>, <<"0","x","F","F">>>>,
   <<<<"2","5","6">>, <<"0","x","1","0","0">>>>,
   <<<<"-","1","0","0">>, <<"0","x","F","F","F","F","F","F","9","C">>>>,
   <<<<"1","0","5","7","6","8","4","4","8","0">>, <<"0","x","3","F","0","A","F","C","0","0">>>>}

HexOf(tok) ==
  IF \E t \in HexTwins : t[1] = tok
  THEN (CHOOSE t \in HexTwins : t[1] = tok)[2]
  ELSE tok

\* the line with its token number p written in hex
HexLine(w, p) ==
  IF p > Len(w) THEN Line(w)
  ELSE Line(SubSeq(w, 1, p - 1) \o <<HexOf(w[p])>> \o SubSeq(w, p + 1, Len(w)))

HexAt(line, p) == HexLine(Words(line), p)

\* the lines a caller sends after line: the same line once more, and the line
\* with one of its decimal arguments written in hex
HexLines(w) == {HexLine(w, p) : p \in 2..Len(w)}
Related(line) == IF line = NULL THEN {line} ELSE {line} \cup HexLines(Words(line))

\* ---- state --------------------------------------------------------------------
VARIABLES
  msg,    \* the command line passed to ubx_gen_cmd, NULL for a null pointer
  buff,   \* the caller's output buffer, NULL for a null pointer
  buff0,  \* the contents of the output buffer when the last call was made
  n,      \* the value the last call returned
  wend,   \* the end of the highest write of the last call
  pc,     \* "call": the caller is about to call; "ret": the call has returned
  ncall,  \* the number of calls made so far
  prev,   \* what the caller kept of the call before: [msg, n, frame]
  task,   \* the tasks that are inside ubx_gen_cmd at the same time
  strtok_last,  \* the position strtok keeps from one call to the next
  reent,  \* whether the C library keeps that position for each task
  copy,   \* strcpy(mbuff, msg) under way: the line and the bytes stored so far
  run,    \* one call of ubx_gen_cmd followed loop pass by loop pass
  uart    \* uart_task: its position, its buffers and what it has written

\* the variables of the copy, of the call followed pass by pass and of uart_task
others == <<copy, run, uart>>

vars == <<msg, buff, buff0, n, wend, pc, ncall, prev, task, strtok_last, reent, others>>

\* calloc(BuffLen, sizeof(uint8_t))
calloc == [i \in 1..BuffLen |-> 0]

\* a buffer the caller has not cleared: every byte holds something else than 0
Uncleared == [i \in 1..BuffLen |-> \hFF]

\* the first n bytes of a buffer
Frame(b, len) == IF b = NULL THEN <<>> ELSE SubSeq(b, 1, len)

\* ---- tasks inside ubx_gen_cmd ---------------------------------------------------
\* A task is [line, args, at, n, buff]: its msg, the args[] it has filled so far
\* (each entry the mbuff the token lies in and the token), the place it is at
\* ("first": before strtok(mbuff, " "); "next": before strtok(NULL, " "); "gen":
\* past the tokenizer loop; "done": returned), the value it returned and its
\* output buffer.
Tasks == {1, 2}

NoTask == [line |-> NULL, args |-> <<>>, at |-> "idle", n |-> 0, buff |-> NULL]
NoLast == [buf |-> 0, pos |-> 0]

\* values of copy, run and uart where a specification does not follow them
NoCopy == [line |-> NULL, k |-> 0, top |-> 0, at |-> "idle"]
NoRun == [at |-> "idle"]
NoUart == [at |-> "idle"]
NoOthers == copy = NoCopy /\ run = NoRun /\ uart = NoUart

\* configure_ublox_uart1 calls ubx_gen_cmd from one task only
OneCaller ==
  /\ task = [t \in Tasks |-> NoTask]
  /\ strtok_last = [t \in Tasks |-> NoLast]
  /\ reent = TRUE

\* lines that are also tried with a null output buffer
NullBuffLines == ValsetCounts \cup MalformedLines \cup {NULL}

Init ==
  /\ \/ msg \in Inputs \cup {NULL} /\ buff \in {calloc, Uncleared}
     \/ msg \in NullBuffLines /\ buff = NULL
  /\ buff0 = buff
  /\ n = 0
  /\ wend = 0
  /\ pc = "call"
  /\ ncall = 0
  /\ prev = [msg |-> NULL, n |-> 0, frame |-> <<>>]
  /\ OneCaller
  /\ NoOthers

\* the caller takes the result r of the call
Returns(r) ==
  /\ n' = r.n
  /\ buff' = r.buff
  /\ wend' = r.wend

\* n = ubx_gen_cmd(msg, buffer)
Call ==
  /\ pc = "call"
  /\ Returns(ubx_gen_cmd(msg, buff))
  /\ buff0' = buff
  /\ pc' = "ret"
  /\ ncall' = ncall + 1
  /\ UNCHANGED <<msg, prev, task, strtok_last, reent, others>>

\* the caller goes on to its next command with the same buffer, as
\* configure_ublox_uart1 and configure_ublox_uart2 do
NextCommand ==
  /\ pc = "ret"
  /\ ncall < MaxCalls
  /\ \E line \in Related(msg) : msg' = line
  /\ prev' = [msg |-> msg, n |-> n, frame |-> Frame(buff, n)]
  /\ pc' = "call"
  /\ UNCHANGED <<buff, buff0, n, wend, ncall, task, strtok_last, reent, others>>

Next == Call \/ NextCommand

Spec == Init /\ [][Next]_vars

TypeOK ==
  /\ pc \in {"call", "ret"}
  /\ ncall \in 0..MaxCalls
  /\ n \in 0..BuffLen
  /\ wend \in 0..BuffLen
  /\ buff = NULL \/ (Len(buff) = BuffLen /\ \A i \in 1..BuffLen : buff[i] \in 0..255)

\* ---- two tasks calling ubx_gen_cmd at the same time ----------------------------
\* the lines the two tasks compile, each into a buffer of its own
TaskLines ==
  {Line(<<CFG \o <<"R","A","T","E">>, <<"2","5","6">>, <<"2","6">>>>),
   Line(<<CFG \o <<"M","S","G">>, <<"1">>, <<"2">>>>),
   Line(<<CFG \o <<"R","S","T">>>>),
   ValsetLine(Hdr0100, <<"T","M","O","D","E","-","M","O","D","E">>, <<"2">>),
   ValsetLine(Hdr0100, <<"T","M","O","D","E","-","H","E","I","G","H","T">>, <<"-","1","0","0">>)}

\* no call of the single caller is under way
NoCaller ==
  /\ msg = NULL
  /\ buff = NULL
  /\ buff0 = NULL
  /\ n = 0
  /\ wend = 0
  /\ pc = "tasks"
  /\ ncall = 0
  /\ prev = [msg |-> NULL, n |-> 0, frame |-> <<>>]

\* The C library keeps the position of strtok in one static object, or in one
\* object for each task: both are outcomes of calling strtok from two tasks.
InitTasks ==
  /\ NoCaller
  /\ NoOthers
  /\ reent \in BOOLEAN
  /\ strtok_last = [t \in Tasks |-> NoLast]
  /\ \E l1 \in TaskLines : \E l2 \in TaskLines \ {l1} :
       task = [t \in Tasks |->
                 [line |-> IF t = 1 THEN l1 ELSE l2, args |-> <<>>, at |-> "first",
                  n |-> 0, buff |-> calloc]]

\* the object task t's strtok calls read and write
Slot(t) == IF reent THEN t ELSE 1

\* p && narg < 32: args[narg++] = p, or the end of the loop; b is the mbuff
\* the token lies in
Took(tk, b, tok) ==
  IF tok # NULL /\ Len(tk.args) < MAXARGS
  THEN [tk EXCEPT !.args = Append(@, [buf |-> b, tok |-> tok]), !.at = "next"]
  ELSE [tk EXCEPT !.at = "gen"]

TokTaken(t, b, r) ==
  /\ strtok_last' = [strtok_last EXCEPT ![Slot(t)] = [buf |-> b, pos |-> r.next]]
  /\ task' = [task EXCEPT ![t] = Took(task[t], b, r.tok)]

\* strcpy(mbuff, msg); p = strtok(mbuff, " ")
TokFirst(t) ==
  /\ task[t].at = "first"
  /\ TokTaken(t, t, strtok(task[t].line, 1))
  /\ UNCHANGED <<msg, buff, buff0, n, wend, pc, ncall, prev, reent, others>>

\* the mbuff of a task that has returned is no longer an object
Dangling(b) == b \in Tasks /\ task[b].at = "done"

\* strtok(NULL, " ") from the kept position s: the scan goes on in the mbuff
\* the position lies in; in an mbuff that is no longer an object it finds what
\* was there, or nothing
strtok_null(s) ==
  IF s.buf = 0 THEN {[tok |-> NULL, next |-> 0]}
  ELSE {strtok(task[s.buf].line, s.pos)}
         \cup (IF Dangling(s.buf) THEN {[tok |-> NULL, next |-> s.pos]} ELSE {})

\* p = strtok(NULL, " ")
TokNext(t) ==
  /\ task[t].at = "next"
  /\ \E r \in strtok_null(strtok_last[Slot(t)]) :
       TokTaken(t, strtok_last[Slot(t)].buf, r)
  /\ UNCHANGED <<msg, buff, buff0, n, wend, pc, ncall, prev, reent, others>>

\* the strings args[] points to, as the code after the loop reads them: a token
\* in an mbuff that is no longer an object reads as it was, or as ""
ArgsRead(a) ==
  {[k \in 1..Len(a) |-> a[k].tok],
   [k \in 1..Len(a) |-> IF Dangling(a[k].buf) THEN <<>> ELSE a[k].tok]}

TaskReturns(t, r) ==
  task' = [task EXCEPT ![t] = [@ EXCEPT !.at = "done", !.n = r.n, !.buff = r.buff]]

\* the code after the tokenizer loop, to the return
Gen(t) ==
  /\ task[t].at = "gen"
  /\ \E a \in ArgsRead(task[t].args) :
       TaskReturns(t, gen_args([buff |-> task[t].buff, q |-> 0, wend |-> 0], a))
  /\ UNCHANGED <<msg, buff, buff0, n, wend, pc, ncall, prev, strtok_last, reent, others>>

NextTasks == \E t \in Tasks : TokFirst(t) \/ TokNext(t) \/ Gen(t)

SpecTasks == InitTasks /\ [][NextTasks]_vars

\* ---- strcpy(mbuff, msg) followed byte by byte -----------------------------------
\* char mbuff[1024]
MBUFF_LEN == 1024

\* the lines copied: "CFG-RATE 256 26" as it is, and followed by as many
\* spaces as make a line of 1022 .. 1026 characters
CopyLines ==
  LET line == Line(<<CFG \o <<"R","A","T","E">>, <<"2","5","6">>, <<"2","6">>>>)
  IN {line} \cup {line \o [x \in 1..(len - Len(line)) |-> " "] :
                    len \in (MBUFF_LEN - 2)..(MBUFF_LEN + 2)}

\* copy is [line, k, top, at]: the line being copied, the number of bytes
\* stored so far, the end of the highest write into mbuff, and "copy" (strcpy is
\* under way), "done" (it has returned) or "crash" (the task has stopped)
InitCopy ==
  /\ NoCaller
  /\ OneCaller
  /\ run = NoRun
  /\ uart = NoUart
  /\ \E l \in CopyLines : copy = [line |-> l, k |-> 0, top |-> 0, at |-> "copy"]

\* A store at mbuff[k]: strcpy makes no test of k.  A store at an index the
\* array does not have lands in what lies after mbuff on the stack of the task;
\* the task goes on, or it stops.
Stored(k, at) ==
  /\ copy' = [copy EXCEPT !.k = k + 1,
                          !.top = IF k + 1 > @ THEN k + 1 ELSE @,
                          !.at = at]
  /\ at = "crash" => k >= MBUFF_LEN

\* mbuff[k] = msg[k], msg[k] being a character of the line
CopyChar ==
  /\ copy.at = "copy"
  /\ copy.k < Len(copy.line)
  /\ \E at \in {"copy", "crash"} : Stored(copy.k, at)
  /\ UNCHANGED <<msg, buff, buff0, n, wend, pc, ncall, prev, task, strtok_last, reent, run, uart>>

\* mbuff[k] = 0, the terminator of the line: strcpy returns
CopyEnd ==
  /\ copy.at = "copy"
  /\ copy.k = Len(copy.line)
  /\ \E at \in {"done", "crash"} : Stored(copy.k, at)
  /\ UNCHANGED <<msg, buff, buff0, n, wend, pc, ncall, prev, task, strtok_last, reent, run, uart>>

NextCopy == CopyChar \/ CopyEnd

SpecCopy == InitCopy /\ [][NextCopy]_vars

\* ---- one call of ubx_gen_cmd followed loop pass by loop pass ---------------------
\* number of tokens of the longest line followed
MaxTokens == 34

\* every family with the token counts ks, the arguments being the token 7,
\* VALSET lines of 7 tokens, and lines that fail the first token test
LinesOf(ks) ==
  {Line(<<CFG \o cmd[i]>> \o [j \in 1..(k - 1) |-> Filler]) :
     i \in 1..(Len(cmd) - 1), k \in ks}
    \cup {ValsetLine(Hdr0100, vcmd[k], <<"1">>) : k \in {1, 62, Len(vcmd) - 1}}
    \cup BadKeyLines \cup BadFamilyLines \cup MalformedLines

\* run is [at, line, args, pos, narg, isvalset, i, j, k, m, n, ck, ntok, nfield]:
\*   at        the loop the call is in ("tok", "cmd", "fields", "key", "vcmd",
\*             "cksum"), or "done" when it has returned
\*   line      msg, a line that fits mbuff and has been copied into it
\*   args      args[0 .. ], the tokens stored so far
\*   pos       the position strtok keeps
\*   narg, isvalset, i, j, k   the locals of the same names (i, j, k as in C)
\*   m         the output buffer, the cursor q and the end of the highest write
\*   n         the local n, and the value returned
\*   ck        the locals i, cka and ckb of set_checksum
\*   ntok, nfield   the passes made through the tokenizer loop and the field loop
InitRun(lines) ==
  /\ NoCaller
  /\ OneCaller
  /\ copy = NoCopy
  /\ uart = NoUart
  /\ \E l \in lines :
       run = [at |-> "tok", line |-> l, args |-> <<>>, pos |-> 1, narg |-> 0,
              isvalset |-> FALSE, i |-> 0, j |-> 0, k |-> 0,
              m |-> [buff |-> calloc, q |-> 0, wend |-> 0], n |-> 0,
              ck |-> [i |-> 0, cka |-> 0, ckb |-> 0],
              ntok |-> 0, nfield |-> 0]

InitLoops == InitRun(LinesOf(1..MaxTokens))

\* return n, the memory being m
RunReturns(r, m, len) == [r EXCEPT !.at = "done", !.m = m, !.n = len]

\* the end of the tokenizer loop: the first token test, then i = 0
Tokenized(r) ==
  IF bad_first_token(r.args) THEN RunReturns(r, r.m, 0)
  ELSE [r EXCEPT !.at = "cmd", !.narg = Len(r.args), !.i = 0]

\* for (p = strtok(mbuff, " "); p && narg < 32; p = strtok(NULL, " "))
\*     args[narg++] = p;
\* one strtok call and the loop test; then the loop body, or what follows the
\* loop
Taken(r, t) ==
  IF t.tok # NULL /\ Len(r.args) < MAXARGS
  THEN [r EXCEPT !.args = Append(@, t.tok), !.pos = t.next, !.ntok = @ + 1]
  ELSE Tokenized(r)

Tok ==
  /\ run.at = "tok"
  /\ run' = Taken(run, strtok(run.line, run.pos))
  /\ UNCHANGED <<msg, buff, buff0, n, wend, pc, ncall, prev, task, strtok_last, reent, copy, uart>>

\* the header, isvalset and the VALSET sanity check, m being the memory after
\* the header: return 0, or j = 1
Headed(r, m, isv) ==
  IF isv /\ valset_narg(r.narg) = 0 THEN RunReturns(r, m, 0)
  ELSE [r EXCEPT !.at = "fields", !.m = m, !.isvalset = isv, !.j = 1,
                 !.narg = IF isv THEN valset_narg(@) ELSE @]

\* for (i = 0; *cmd[i]; i++) if (!strcmp(args[0] + 4, cmd[i])) break;
\* one loop test: the sentinel (return 0), the name found (the header is
\* stored), or i++
CmdStep ==
  /\ run.at = "cmd"
  /\ run' = IF cmd[run.i + 1] = <<>> THEN RunReturns(run, run.m, 0)
            ELSE IF strcmp(SubSeq(run.args[1], 5, Len(run.args[1])), cmd[run.i + 1]) = 0
            THEN Headed(run,
                        Adv(Poke(run.m, 0, <<UBXSYNC1, UBXSYNC2, UBXCFG, id[run.i + 1]>>), 6),
                        strcmp(cmd[run.i + 1], VALSET) = 0)
            ELSE [run EXCEPT !.i = @ + 1]
  /\ UNCHANGED <<msg, buff, buff0, n, wend, pc, ncall, prev, task, strtok_last, reent, copy, uart>>

\* n = (int)(q - buff) + 2; setU2(buff + 4, n - 8); then set_checksum(buff, n)
\* is entered, with i = 2; m is the memory after the last field
Finished(r, m) ==
  [r EXCEPT !.at = "cksum", !.n = m.q + 2, !.m = setU2(m, 4, U16(m.q + 2 - 8)),
            !.ck = [i |-> 2, cka |-> 0, ckb |-> 0]]

\* for (j = 1; prm[i][j - 1] || j < narg; j++) switch (prm[i][j - 1]) ...
\* one loop test: the loop body and j++, or what follows the loop
FieldStep ==
  /\ run.at = "fields"
  /\ run' = IF prm[run.i + 1][run.j] # 0 \/ run.j < run.narg
            THEN [run EXCEPT !.m = gen_field(@, prm[run.i + 1][run.j], run.j < run.narg,
                                             IF run.j < run.narg THEN run.args[run.j + 1]
                                             ELSE <<>>),
                             !.j = @ + 1,
                             !.nfield = @ + 1]
            ELSE IF run.isvalset THEN [run EXCEPT !.at = "key"]
            ELSE Finished(run, run.m)
  /\ UNCHANGED <<msg, buff, buff0, n, wend, pc, ncall, prev, task, strtok_last, reent, copy, uart>>

\* if (strncmp(args[j], "CFG-", 4)) return 0;  then k = 0
KeyTest ==
  /\ run.at = "key"
  /\ run' = IF ~key_has_prefix(run.args[run.j + 1]) THEN RunReturns(run, run.m, 0)
            ELSE [run EXCEPT !.at = "vcmd", !.k = 0]
  /\ UNCHANGED <<msg, buff, buff0, n, wend, pc, ncall, prev, task, strtok_last, reent, copy, uart>>

\* for (k = 0; *vcmd[k]; k++) if (!strcmp(args[j] + 4, vcmd[k])) break;
\* one loop test: the sentinel (return 0), the key found (its id and the value
\* args[j + 1] are stored, then the trailer), or k++
KeyStep ==
  /\ run.at = "vcmd"
  /\ run' = IF vcmd[run.k + 1] = <<>> THEN RunReturns(run, run.m, 0)
            ELSE IF strcmp(SubSeq(run.args[run.j + 1], 5, Len(run.args[run.j + 1])),
                           vcmd[run.k + 1]) = 0
            THEN Finished(run, valset_value(Adv(setU4(run.m, run.m.q, vid[run.k + 1]), 4),
                                            vprm[run.k + 1], run.args[run.j + 2]))
            ELSE [run EXCEPT !.k = @ + 1]
  /\ UNCHANGED <<msg, buff, buff0, n, wend, pc, ncall, prev, task, strtok_last, reent, copy, uart>>

\* for (i = 2; i < len - 2; i++) { cka += buff[i]; ckb += cka; }
\* one loop test: the loop body and i++, or the two checksum bytes are stored
\* and the call returns n
CkStep ==
  /\ run.at = "cksum"
  /\ run' = IF run.ck.i < run.n - 2
            THEN [run EXCEPT !.ck = [i |-> @.i + 1,
                                     cka |-> ck_step(@, run.m.buff[@.i + 1]).cka,
                                     ckb |-> ck_step(@, run.m.buff[@.i + 1]).ckb]]
            ELSE RunReturns(run, put_checksum(run.m, run.n, run.ck), run.n)
  /\ UNCHANGED <<msg, buff, buff0, n, wend, pc, ncall, prev, task, strtok_last, reent, copy, uart>>

NextLoops == Tok \/ CmdStep \/ FieldStep \/ KeyTest \/ KeyStep \/ CkStep

SpecLoops == InitLoops /\ [][NextLoops]_vars

\* The same call for the token counts 1, 2, 7 and 31 .. MaxTokens, the task that
\* made it being scheduled until it returns.
InitLive == InitRun(LinesOf({1, 2, 7} \cup (31..MaxTokens)))

SpecLoopsLive == InitLive /\ [][NextLoops]_vars /\ WF_vars(NextLoops)

\* ---- uart_task (main.c) ---------------------------------------------------------
\* static const int RX_BUF_SIZE = 1024; data1 and data2 are malloc(RX_BUF_SIZE + 1)
RX_BUF_SIZE == 1024

\* what uart_read_bytes(port, data, RX_BUF_SIZE, timeout) can return: the error
\* value -1 or a count of bytes 0..RX_BUF_SIZE
RxValues == {-1, 0, 1, RX_BUF_SIZE - 1, RX_BUF_SIZE}

\* uint8_t* buffer = calloc(UBX_MSG_LEN, sizeof(uint8_t))
calloc_msg == [i \in 1..UBX_MSG_LEN |-> 0]

\* n = ubx_gen_cmd(line, buffer) for each line of a configure function in turn:
\* every call writes into the buffer as the call before has left it
RECURSIVE Compiled(_, _)
Compiled(lines, b) ==
  IF lines = <<>> THEN <<>>
  ELSE <<ubx_gen_cmd(Head(lines), b)>>
         \o Compiled(Tail(lines), ubx_gen_cmd(Head(lines), b).buff)
Uart1Calls == Compiled(Uart1Lines, calloc_msg)
Uart2Calls == Compiled(Uart2Lines, calloc_msg)

\* uart_write_bytes(port, buffer, n) after call k: n bytes of the buffer go out
Written(calls, k) == [len |-> calls[k].n, bytes |-> Frame(calls[k].buff, calls[k].n)]

\* uart is the task's position: at (cfg1, cfg2: in a configure function, before
\* its call k; read1, read2: before the read of that port; crash), the writes
\* made to UART1 (w1) and, by the configure_ublox_uart2 under way or last
\* made, to UART2 (w2), the last results of the two reads (rx1, rx2) and the
\* indices of the last terminating zeros (z1, z2); <<>> where there is none yet
InitUart ==
  /\ NoCaller
  /\ OneCaller
  /\ copy = NoCopy
  /\ run = NoRun
  /\ uart = [at |-> "cfg1", k |-> 1, w1 |-> <<>>, w2 |-> <<>>,
             rx1 |-> <<>>, rx2 |-> <<>>, z1 |-> <<>>, z2 |-> <<>>]

\* one ubx_gen_cmd / uart_write_bytes pair of configure_ublox_uart1; after the
\* last pair uart_task calls configure_ublox_uart2
Cfg1 ==
  /\ uart.at = "cfg1"
  /\ uart' = [uart EXCEPT !.w1 = Append(@, Written(Uart1Calls, uart.k)),
                          !.k = IF uart.k = Len(Uart1Lines) THEN 1 ELSE uart.k + 1,
                          !.at = IF uart.k = Len(Uart1Lines) THEN "cfg2" ELSE "cfg1"]
  /\ UNCHANGED <<msg, buff, buff0, n, wend, pc, ncall, prev, task, strtok_last, reent, copy, run>>

\* one pair of configure_ublox_uart2; after the last pair the loop reads UART1
Cfg2 ==
  /\ uart.at = "cfg2"
  /\ uart' = [uart EXCEPT !.w2 = Append(@, Written(Uart2Calls, uart.k)),
                          !.k = IF uart.k = Len(Uart2Lines) THEN 1 ELSE uart.k + 1,
                          !.at = IF uart.k = Len(Uart2Lines) THEN "read1" ELSE "cfg2"]
  /\ UNCHANGED <<msg, buff, buff0, n, wend, pc, ncall, prev, task, strtok_last, reent, copy, run>>

\* data[r] = 0 with data of RX_BUF_SIZE + 1 bytes: a store outside the block
\* is undefined, the task goes on or is stopped
AfterStore(r, next) == IF r \in 0..RX_BUF_SIZE THEN {next} ELSE {next, "crash"}

\* rxBytes1 = uart_read_bytes(UART_NUM_1, data1, ..); data1[rxBytes1] = 0;
Read1 ==
  /\ uart.at = "read1"
  /\ \E r \in RxValues : \E a \in AfterStore(r, "read2") :
       uart' = [uart EXCEPT !.rx1 = <<r>>, !.z1 = <<r>>, !.at = a]
  /\ UNCHANGED <<msg, buff, buff0, n, wend, pc, ncall, prev, task, strtok_last, reent, copy, run>>

\* rxBytes2 = uart_read_bytes(UART_NUM_2, data2, ..);
\* if (rxBytes2 == 0) { configure_ublox_uart2(); continue; }
\* data2[rxBytes2] = 0;
Read2 ==
  /\ uart.at = "read2"
  /\ \E r \in RxValues :
       IF r = 0
       THEN uart' = [uart EXCEPT !.rx2 = <<r>>, !.at = "cfg2", !.k = 1, !.w2 = <<>>]
       ELSE \E a \in AfterStore(r, "read1") :
              uart' = [uart EXCEPT !.rx2 = <<r>>, !.z2 = <<r>>, !.at = a]
  /\ UNCHANGED <<msg, buff, buff0, n, wend, pc, ncall, prev, task, strtok_last, reent, copy, run>>

NextUart == Cfg1 \/ Cfg2 \/ Read1 \/ Read2
SpecUart == InitUart /\ [][NextUart]_vars

\* uart_task is a task of its own and every read returns after its timeout of
\* 1000 ms at the latest, so the task always makes its next step
SpecUartLive == InitUart /\ [][NextUart]_vars /\ WF_vars(NextUart)

\* ---- vocabulary of the properties ---------------------------------------------
Returned == pc = "ret"

\* the call had a line and a buffer to work on
Proper == msg # NULL /\ buff0 # NULL

FamilyNames == {cmd[i] : i \in 1..(Len(cmd) - 1)}
KeyNames == {vcmd[k] : k \in 1..(Len(vcmd) - 1)}

HasCFG(tok) == Len(tok) >= 4 /\ SubSeq(tok, 1, 4) = CFG
Rest(tok) == SubSeq(tok, 5, Len(tok))

FamilyIndex(name) == CHOOSE i \in 1..(Len(cmd) - 1) : cmd[i] = name
KeyIndex(name) == Min({k \in 1..(Len(vcmd) - 1) : vcmd[k] = name})

\* byte width of a field type on the wire; the types with no case of their own
\* (FU8, and 0 for a surplus token) go through the default branch
Width(t) ==
  CASE t \in {FU1, FI1} -> 1
    [] t \in {FU2, FI2} -> 2
    [] t \in {FU4, FI4, FR4} -> 4
    [] t = FR8 -> 8
    [] t = FS32 -> 32
    [] OTHER -> 1

\* sum of b[i] (weighted: of (hi + 1 - i) * b[i]) for i in lo..hi, taken in
\* runs of 16 terms
RECURSIVE SumRun(_, _, _, _, _, _)
SumRun(b, i, stop, hi, weighted, acc) ==
  IF i > stop \/ acc < 0 THEN acc
  ELSE SumRun(b, i + 1, stop, hi, weighted,
              acc + b[i] * (IF weighted THEN hi + 1 - i ELSE 1))

RECURSIVE ByteSum(_, _, _, _, _)
ByteSum(b, i, hi, weighted, acc) ==
  IF i > hi \/ acc < 0 THEN acc
  ELSE LET stop == IF i + 15 < hi THEN i + 15 ELSE hi
       IN ByteSum(b, stop + 1, hi, weighted, SumRun(b, i, stop, hi, weighted, acc))

\* the two accumulators over the bytes [2, len-2) of a frame
FletcherA(b, len) == ByteSum(b, 3, len - 2, FALSE, 0) % 256
FletcherB(b, len) == ByteSum(b, 3, len - 2, TRUE, 0) % 256

\* decimal value tokens and their values
DecVal ==
  {<<<<"0">>, 0>>, <<<<"1">>, 1>>, <<<<"2">>, 2>>, <<<<"7">>, 7>>, <<<<"2","6">>, 26>>,
   <<<<"2","5","5">>, 255>>, <<<<"2","5","6">>, 256>>, <<<<"-","1","0","0">>, -100>>,
   <<<<"1","0","5","7","6","8","4","4","8","0">>, 1057684480>>}
IsDec(tok) == \E d \in DecVal : d[1] = tok
ValueOf(tok) == (CHOOSE d \in DecVal : d[1] = tok)[2]

\* a 7-token VALSET line with header 0 1 0 0, a dictionary key and a decimal value
IsValset0100(w) ==
  /\ Len(w) = 7
  /\ w[1] = CFG \o VALSET
  /\ SubSeq(w, 2, 5) = Hdr0100
  /\ HasCFG(w[6])
  /\ Rest(w[6]) \in KeyNames
  /\ IsDec(w[7])

\* ---- C1 -----------------------------------------------------------------------
\* C1: whenever ubx_gen_cmd returns a non-zero length n, the last two bytes of
\* the frame are the two 8-bit accumulators (ckA += byte, ckB += ckA) taken over
\* the bytes [2, n-2) of the final frame, and check_checksum(buff, n) is true.
C1_Checksum ==
  (Returned /\ n # 0) =>
     /\ check_checksum(buff, n)
     /\ buff[n - 1] = FletcherA(buff, n)
     /\ buff[n] = FletcherB(buff, n)

\* a CFG-USB frame (three S32 fields) has been produced
C1_Witness ==
  /\ Returned
  /\ n = 116
  /\ Frame(buff, 4) = <<UBXSYNC1, UBXSYNC2, UBXCFG, \h1B>>
  /\ check_checksum(buff, n)

\* ---- C2 -----------------------------------------------------------------------
\* the number of payload bytes the line asks for: for VALSET 4 header bytes, 4
\* key bytes and the value; for the other families each declared field and each
\* surplus token, at the width of its type
RECURSIVE WidthSum(_, _, _)
WidthSum(i, lo, hi) ==
  IF lo > hi THEN 0
  ELSE IF lo = hi THEN Width(prm[i][lo])
  ELSE WidthSum(i, lo, (lo + hi) \div 2) + WidthSum(i, (lo + hi) \div 2 + 1, hi)

\* the number of fields the family declares, and the payload bytes of a line
\* of the family with k argument tokens
CountDeclared(i) == Cardinality({j \in 1..32 : \A l \in 1..j : prm[i][l] # 0})
DeclaredTab ==
  SubSeq([i \in 1..(Len(cmd) - 1) |-> CountDeclared(i)], 1, Len(cmd) - 1)
Declared(i) == DeclaredTab[i]

\* the widths of the first j entries of prm[i], j in 0..32, summed
WidthTab ==
  SubSeq([i \in 1..(Len(cmd) - 1) |->
            SubSeq([j \in 1..33 |-> WidthSum(i, 1, j - 1)], 1, 33)],
         1, Len(cmd) - 1)
WidthTo(i, j) == WidthTab[i][j + 1]
FieldsWidth(i, k) == WidthSum(i, 1, IF Declared(i) > k THEN Declared(i) ELSE k)

PayloadLength(line) ==
  LET w == Words(line)
      i == FamilyIndex(Rest(w[1]))
      k == (IF Len(w) > MAXARGS THEN MAXARGS ELSE Len(w)) - 1
  IN IF cmd[i] = VALSET THEN 8 + Width(vprm[KeyIndex(Rest(w[6]))])
     ELSE FieldsWidth(i, k)

\* C2: in every produced frame the little-endian 16-bit length field at offsets
\* 4..5 is the number of payload bytes written after the 6-byte header, and the
\* returned length is 8 plus that number.
C2_Length ==
  (Returned /\ n # 0) =>
     /\ buff[5] + 256 * buff[6] = PayloadLength(msg)
     /\ n = 8 + PayloadLength(msg)

\* a CFG-PRT frame (nine fields, 20 payload bytes) has been produced
C2_Witness ==
  /\ Returned
  /\ n = 28
  /\ buff[4] = \h00
  /\ buff[5] = 20
  /\ buff[6] = 0

\* ---- C3 -----------------------------------------------------------------------
C3_Line0 == ValsetLine(Hdr0100, <<"T","M","O","D","E","-","M","O","D","E">>, <<"0">>)
C3_Line2 == ValsetLine(Hdr0100, <<"T","M","O","D","E","-","M","O","D","E">>, <<"2">>)
C3_LinePos == ValsetLine(Hdr0100, <<"T","M","O","D","E","-","P","O","S","_","T","Y","P","E">>, <<"1">>)

\* C3: "CFG-VALSET 0 1 0 0 CFG-<KEY> <v>" with a key of a one-byte type compiles
\* to 17 bytes: B5 62 06 8A 09 00, 00 01 00 00, the key id little-endian, the
\* value byte, ckA, ckB; the three lines of the self test give the frames
\* listed there.
C3_OneByteValset ==
  (Returned /\ Proper) =>
     /\ LET w == Words(msg)
        IN (IsValset0100(w) /\ vprm[KeyIndex(Rest(w[6]))] \in {FU1, FI1}) =>
              LET key == vid[KeyIndex(Rest(w[6]))]
              IN /\ n = 17
                 /\ Frame(buff, 15) =
                      <<\hB5, \h62, \h06, \h8A, \h09, \h00, \h00, \h01, \h00, \h00>>
                        \o <<key % 256, (key \div 256) % 256,
                             (key \div 65536) % 256, key \div 16777216>>
                        \o <<ValueOf(w[7]) % 256>>
                 /\ buff[16] = FletcherA(buff, 17)
                 /\ buff[17] = FletcherB(buff, 17)
     /\ msg = C3_Line0 =>
          Frame(buff, n) = <<\hB5, \h62, \h06, \h8A, \h09, \h00, \h00, \h01, \h00, \h00, \h01, \h00, \h03, \h20, \h00, \hBE, \h7F>>
     /\ msg = C3_Line2 =>
          Frame(buff, n) = <<\hB5, \h62, \h06, \h8A, \h09, \h00, \h00, \h01, \h00, \h00, \h01, \h00, \h03, \h20, \h02, \hC0, \h81>>
     /\ msg = C3_LinePos =>
          Frame(buff, n) = <<\hB5, \h62, \h06, \h8A, \h09, \h00, \h00, \h01, \h00, \h00, \h02, \h00, \h03, \h20, \h01, \hC0, \h85>>

\* "CFG-VALSET 0 1 0 0 CFG-TMODE-MODE 2" has been compiled
C3_Witness ==
  /\ Returned
  /\ Proper
  /\ msg = C3_Line2
  /\ n = 17

\* ---- C4 -----------------------------------------------------------------------
C4_LineLon == ValsetLine(Hdr0100, <<"T","M","O","D","E","-","L","O","N">>, <<"1","0","5","7","6","8","4","4","8","0">>)
C4_LineHeight == ValsetLine(Hdr0100, <<"T","M","O","D","E","-","H","E","I","G","H","T">>, <<"-","1","0","0">>)

\* the 4 bytes of the 32-bit two's complement of v, lowest first
TwosComplement4(v) ==
  LET u == IF v < 0 THEN v + 2147483647 + 1 ELSE v
  IN <<u % 256, (u \div 256) % 256, (u \div 65536) % 256,
       (u \div 16777216) + (IF v < 0 THEN 128 ELSE 0)>>

\* C4: "CFG-VALSET 0 1 0 0 CFG-<KEY> <v>" with the I4 keys TMODE-LAT, TMODE-LON
\* and TMODE-HEIGHT compiles to 20 bytes with length field 0C 00 and the decimal
\* value, negative or not, as 4 bytes two's complement little-endian; the two
\* lines of the self test give the frames listed there.
C4_I4Valset ==
  (Returned /\ Proper) =>
     /\ LET w == Words(msg)
        IN (/\ IsValset0100(w)
            /\ Rest(w[6]) \in {<<"T","M","O","D","E","-","L","A","T">>,
                               <<"T","M","O","D","E","-","L","O","N">>,
                               <<"T","M","O","D","E","-","H","E","I","G","H","T">>}) =>
              /\ n = 20
              /\ buff[5] = \h0C
              /\ buff[6] = \h00
              /\ SubSeq(buff, 15, 18) = TwosComplement4(ValueOf(w[7]))
     /\ msg = C4_LineLon =>
          Frame(buff, n) =
            <<\hB5, \h62, \h06, \h8A, \h0C, \h00, \h00, \h01, \h00, \h00, \h0A, \h00, \h03, \h40, \h00, \hFC, \h0A, \h3F, \h2F, \h12>>
     /\ msg = C4_LineHeight =>
          Frame(buff, n) =
            <<\hB5, \h62, \h06, \h8A, \h0C, \h00, \h00, \h01, \h00, \h00, \h0B, \h00, \h03, \h40, \h9C, \hFF, \hFF, \hFF, \h84, \h3D>>

\* "CFG-VALSET 0 1 0 0 CFG-TMODE-HEIGHT -100" has been compiled
C4_Witness ==
  /\ Returned
  /\ Proper
  /\ msg = C4_LineHeight
  /\ n = 20
  /\ SubSeq(buff, 15, 18) = <<\h9C, \hFF, \hFF, \hFF>>

\* ---- C5 -----------------------------------------------------------------------
\* C5: when the first token begins with CFG- and its remainder is not exactly
\* one of the family names of cmd[] (unknown name, empty name, a name that
\* extends or abbreviates a family name, a name in another case), ubx_gen_cmd
\* returns 0.
C5_UnknownFamily ==
  (Returned /\ Proper) =>
     LET w == Words(msg)
     IN (w # <<>> /\ HasCFG(w[1]) /\ Rest(w[1]) \notin FamilyNames) => n = 0

\* "CFG-FOO 1 2 3" has been rejected
C5_Witness ==
  /\ Returned
  /\ Proper
  /\ msg = Line(<<<<"C","F","G","-","F","O","O">>, <<"1">>, <<"2">>, <<"3">>>>)
  /\ n = 0

\* ---- C6 -----------------------------------------------------------------------
\* C6: for a 7-token VALSET line whose token[5] does not begin with CFG-, or
\* whose remainder after the prefix is not exactly a name of the key dictionary
\* (the empty name included), ubx_gen_cmd returns 0.
C6_UnknownKey ==
  (Returned /\ Proper) =>
     LET w == Words(msg)
     IN (/\ Len(w) = 7
         /\ w[1] = CFG \o VALSET
         /\ (~HasCFG(w[6]) \/ Rest(w[6]) \notin KeyNames)) => n = 0

\* "CFG-VALSET 0 1 0 0 CFG-NOT-A-KEY 1" has been rejected
C6_Witness ==
  /\ Returned
  /\ Proper
  /\ msg = Line(<<<<"C","F","G","-","V","A","L","S","E","T">>, <<"0">>, <<"1">>, <<"0">>, <<"0">>, <<"C","F","G","-","N","O","T","-","A","-","K","E","Y">>, <<"1">>>>)
  /\ n = 0

C9_Malformed ==
  (/\ Returned
   /\ \/ msg = NULL
      \/ buff0 = NULL
      \/ Words(msg) = <<>>
      \/ ~HasCFG(Words(msg)[1])) => n = 0

\* "cfg-PRT 1", whose first token lacks the prefix, has been rejected
C9_Witness ==
  /\ Returned
  /\ Proper
  /\ msg = Line(<<<<"c","f","g","-","P","R","T">>, <<"1">>>>)
  /\ n = 0

\* ---- C7 -----------------------------------------------------------------------
IntegerTypes == {FU1, FU2, FU4, FU8, FI1, FI2, FI4}

\* token number p of the line with tokens w is the argument of an integer
\* field: a header field or an integer value of VALSET, an integer field or a
\* surplus token of another family
IsIntegerField(w, p) ==
  LET i == FamilyIndex(Rest(w[1]))
  IN IF cmd[i] = VALSET
     THEN \/ p \in 2..5
          \/ p = 7 /\ vprm[KeyIndex(Rest(w[6]))] \in IntegerTypes
     ELSE p \in 2..MAXARGS /\ prm[i][p - 1] \in IntegerTypes \cup {0}

\* C7: for every integer field of every family, the four header fields and the
\* value field of VALSET included, the line with the decimal token replaced by
\* the 0x-hex token of the same value compiles to a byte-identical frame.
C7_HexEqualsDecimal ==
  (Returned /\ Proper /\ ncall >= 2 /\ prev.n # 0) =>
     \A p \in 2..Len(Words(prev.msg)) :
        (/\ msg # prev.msg
         /\ msg = HexAt(prev.msg, p)
         /\ IsIntegerField(Words(prev.msg), p)) =>
           /\ n = prev.n
           /\ Frame(buff, n) = prev.frame

\* ---- C10 ----------------------------------------------------------------------
\* C10: a line of more than 32 tokens is rejected, whatever its family:
\* ubx_gen_cmd returns 0.
C10_TooManyTokens ==
  (Returned /\ Proper /\ Len(Words(msg)) > MAXARGS) => n = 0

\* ---- C11 ----------------------------------------------------------------------
\* a 7-token VALSET line whose token[5] is CFG- and a name of the dictionary
IsValsetOfKey(w) ==
  /\ Len(w) = 7
  /\ w[1] = CFG \o VALSET
  /\ HasCFG(w[6])
  /\ Rest(w[6]) \in KeyNames

\* the type the dictionary records for the key of the line
KeyType(w) == vprm[KeyIndex(Rest(w[6]))]

\* C11: a well-formed 7-token VALSET line whose key has the dictionary type U8
\* is a failure: ubx_gen_cmd returns 0 for it, and so never a frame whose
\* value field is shorter than 8 bytes.
C11_U8IsFailure ==
  (Returned /\ Proper) =>
     LET w == Words(msg)
     IN (IsValsetOfKey(w) /\ KeyType(w) = FU8) => n = 0

\* ---- C12 ----------------------------------------------------------------------
\* C12: whenever ubx_gen_cmd returns 0, whatever the cause, no byte of the
\* caller's output buffer has been modified by the call.
C12_NoPartialFrame ==
  (Returned /\ Proper /\ n = 0) => buff = buff0

\* ---- C13 ----------------------------------------------------------------------
\* what a call with the line returns when it runs alone
Alone(line) == ubx_gen_cmd(line, calloc)

SameAsAlone(tk, r) == tk.n = r.n /\ Frame(tk.buff, r.n) = Frame(r.buff, r.n)

C15_BufferEnough ==
  (Returned /\ Proper) =>
     /\ wend <= 1024
     /\ n # 0 => wend <= n

\* "CFG-USB 1 2 0 0 256 26 UBLOX GNSS <38 characters>" has been compiled, its
\* last S32 field ending the payload
C15_Witness ==
  /\ Returned
  /\ Proper
  /\ msg \in UsbLines
  /\ Len(Words(msg)) = 10
  /\ n = 116
  /\ wend = n

\* ---- C16 ----------------------------------------------------------------------
\* the sub-ids of the families whose names begin alike, and of VALDEL, VALGET
\* and VALSET
SubIds ==
  {<<<<"T","M">>, \h10>>, <<<<"T","M","2">>, \h19>>,
   <<<<"T","M","O","D","E">>, \h1D>>, <<<<"T","M","O","D","E","2">>, \h36>>,
   <<<<"T","M","O","D","E","3">>, \h71>>, <<<<"N","A","V","2">>, \h1A>>,
   <<<<"N","A","V","5">>, \h24>>, <<<<"N","A","V","X","5">>, \h23>>,
   <<<<"V","A","L","D","E","L">>, \h8C>>, <<<<"V","A","L","G","E","T">>, \h8B>>,
   <<<<"V","A","L","S","E","T">>, \h8A>>}

\* the first four bytes of a frame of the family called name
HeaderOk(name, b) ==
  /\ Frame(b, 3) = <<\hB5, \h62, \h06>>
  /\ name \in FamilyNames
  /\ b[4] = id[FamilyIndex(name)]
  /\ \A f \in SubIds : name = f[1] => b[4] = f[2]

\* C16: every produced frame begins with B5 62 06 and the sub-id of exactly
\* the family named in token[0]; TM, TM2, TMODE, TMODE2, TMODE3, NAV2, NAV5,
\* NAVX5, VALDEL, VALGET and VALSET have the sub-ids 10, 19, 1D, 36, 71, 1A,
\* 24, 23, 8C, 8B and 8A.
C16_Header ==
  (Returned /\ n # 0) => HeaderOk(Rest(Words(msg)[1]), buff)

\* a CFG-TM2 frame has been produced
C16_Witness ==
  /\ Returned
  /\ n # 0
  /\ Words(msg)[1] = CFG \o <<"T","M","2">>
  /\ Frame(buff, 4) = <<\hB5, \h62, \h06, \h19>>

\* ---- C17 ----------------------------------------------------------------------
\* integer tokens, decimal or 0x-hex, and their values
IsInt(tok) == IsDec(tok) \/ \E t \in HexTwins : t[2] = tok
IntValue(tok) ==
  IF IsDec(tok) THEN ValueOf(tok)
  ELSE ValueOf((CHOOSE t \in HexTwins : t[2] = tok)[1])

\* the wd lowest bytes of the two's complement of v, lowest first
WireBytes(v, wd) ==
  IF wd = 4 THEN TwosComplement4(v)
  ELSE [b \in 1..wd |-> ((v % (256 ^ wd)) \div (256 ^ (b - 1))) % 256]

\* byte width of a type as the dictionary declares it
TypeWidth(t) == IF t = FU8 THEN 8 ELSE Width(t)

SixIntegerTypes == {FU1, FI1, FU2, FI2, FU4, FI4}

\* the payload of a VALSET frame for the line with tokens w
ValsetPayloadOk(w, b, len) ==
  /\ IsValsetOfKey(w)
  /\ len = 16 + TypeWidth(KeyType(w))
  /\ b[5] + 256 * b[6] = 8 + TypeWidth(KeyType(w))
  /\ \A p \in 2..5 : IsInt(w[p]) => b[5 + p] = IntValue(w[p]) % 256
  /\ SubSeq(b, 11, 14) = TwosComplement4(vid[KeyIndex(Rest(w[6]))])
  /\ (IsDec(w[7]) /\ KeyType(w) \in SixIntegerTypes) =>
        SubSeq(b, 15, 14 + Width(KeyType(w))) = WireBytes(ValueOf(w[7]), Width(KeyType(w)))

ValsetLineOk(w, b, len) == w[1] = CFG \o VALSET => ValsetPayloadOk(w, b, len)

\* C17: the payload of every accepted VALSET command is, in order, tokens[1..4]
\* as one U1 byte each, the key of token[5] as 4 bytes little-endian, and
\* token[6] in the type the dictionary records for the key; its length is 8
\* plus the byte width of that type.
C17_ValsetPayload ==
  (Returned /\ Proper /\ n # 0) => ValsetLineOk(Words(msg), buff, n)

\* ---- C18 ----------------------------------------------------------------------
\* the bytes of field j (from 1) of a frame of family i
FieldAt(b, i, j) == SubSeq(b, 7 + WidthTo(i, j - 1), 6 + WidthTo(i, j))

\* a field without a token: zero bytes, 32 spaces for S32
DefaultBytes(t) == [x \in 1..Width(t) |-> IF t = FS32 THEN 32 ELSE 0]

\* a field with the token tok, where the encoding is that of an integer or of
\* a string
TokenBytesOk(f, t, tok) ==
  /\ (t \in SixIntegerTypes /\ IsInt(tok)) => f = WireBytes(IntValue(tok), Width(t))
  /\ t = FS32 => f = [x \in 1..32 |-> IF x <= Len(tok) THEN Ord[tok[x]] ELSE 32]

\* the line with tokens w names a family other than VALSET
IsGeneric(w) ==
  /\ w # <<>>
  /\ HasCFG(w[1])
  /\ Rest(w[1]) \in FamilyNames \ {VALSET}

\* the number of argument tokens the tokenizer keeps
NArgs(w) == (IF Len(w) > MAXARGS THEN MAXARGS ELSE Len(w)) - 1

DeclaredOk(w, i, b, len) ==
  /\ len = 8 + WidthTo(i, Declared(i))
  /\ \A j \in 1..Declared(i) :
        IF j <= NArgs(w) THEN TokenBytesOk(FieldAt(b, i, j), prm[i][j], w[j + 1])
        ELSE FieldAt(b, i, j) = DefaultBytes(prm[i][j])

DeclaredLineOk(w, b, len) ==
  (IsGeneric(w) /\ NArgs(w) <= Declared(FamilyIndex(Rest(w[1])))) =>
     DeclaredOk(w, FamilyIndex(Rest(w[1])), b, len)

\* C18: a family other than VALSET given k arguments, k at most the number of
\* its declared fields, gives all its declared fields in the order of their
\* declaration, the first k from the tokens and the others as defaults (zero
\* bytes, 32 spaces for S32); the payload length is the sum of the declared
\* widths whatever k is.
C18_DeclaredFields ==
  (Returned /\ Proper) => DeclaredLineOk(Words(msg), buff, n)

\* "CFG-USB 1 2 0 0 256 26 UBLOX" has been compiled: six fields and a string
\* from the tokens, two strings of 32 spaces by default
C18_Witness ==
  /\ Returned
  /\ Proper
  /\ msg \in UsbLines
  /\ Len(Words(msg)) = 8
  /\ n = 116
  /\ SubSeq(buff, 15, 18) = <<\h00, \h01, \h1A, \h00>>
  /\ SubSeq(buff, 19, 24) = <<\h55, \h42, \h4C, \h4F, \h58, \h20>>
  /\ \A x \in 51..114 : buff[x] = \h20

\* ---- C19 ----------------------------------------------------------------------
\* the line has more argument tokens than its family declares fields
HasSurplus(w) ==
  IsGeneric(w) /\ NArgs(w) > Declared(FamilyIndex(Rest(w[1])))

\* the frame of family i for the tokens w, each surplus token taking wd bytes
SurplusOk(w, i, b, len, wd) ==
  /\ len = 8 + WidthTo(i, Declared(i)) + wd * (NArgs(w) - Declared(i))
  /\ \A j \in (Declared(i) + 1)..NArgs(w) :
        IsInt(w[j + 1]) =>
          SubSeq(b, 7 + WidthTo(i, Declared(i)) + wd * (j - Declared(i) - 1),
                    6 + WidthTo(i, Declared(i)) + wd * (j - Declared(i)))
            = WireBytes(IntValue(w[j + 1]), wd)

\* the width of the last declared field of family i
LastWidth(i) == Width(prm[i][Declared(i)])

\* the frame of a line with surplus tokens, each taking one byte (u1) or the
\* width of the last declared field
SurplusLineOk(w, b, len, u1) ==
  HasSurplus(w) =>
     SurplusOk(w, FamilyIndex(Rest(w[1])), b, len,
               IF u1 THEN 1 ELSE LastWidth(FamilyIndex(Rest(w[1]))))

\* C19 as it was stated: every surplus token of a family other than VALSET is
\* encoded with the type and width of the last declared field of the family
\* (U2 for CFG-RATE and CFG-VALGET, U1 for CFG-CFG).
C19_SurplusAsLastField ==
  (Returned /\ Proper) => SurplusLineOk(Words(msg), buff, n, FALSE)

\* C19, amended: every surplus token among the first 32 tokens of a line of a
\* family other than VALSET is encoded as one U1 byte, whatever the type of the
\* last declared field of the family; tokens after the 32nd are not encoded.
C19_SurplusAsU1 ==
  (Returned /\ Proper) => SurplusLineOk(Words(msg), buff, n, TRUE)

\* "CFG-RATE 7 7 7 7 7 7 7" has been compiled: three U2 fields and four
\* surplus bytes
C19_Witness ==
  /\ Returned
  /\ Proper
  /\ msg = Line(<<CFG \o <<"R","A","T","E">>>> \o [j \in 1..7 |-> Filler])
  /\ n = 18
  /\ SubSeq(buff, 7, 16) = <<7, 0, 7, 0, 7, 0, 7, 7, 7, 7>>

\* ---- C20 ----------------------------------------------------------------------
\* token number p of the line with tokens w goes to an integer field of one,
\* two or four bytes: [ok, off, wd], off being the offset of the field in the
\* frame and wd its width
IntegerSlot(w, p) ==
  IF w[1] = CFG \o VALSET
  THEN IF p \in 2..5 THEN [ok |-> TRUE, off |-> 4 + p, wd |-> 1]
       ELSE [ok |-> p = 7 /\ KeyType(w) \in SixIntegerTypes, off |-> 14,
             wd |-> Width(KeyType(w))]
  ELSE [ok |-> /\ p - 1 <= Declared(FamilyIndex(Rest(w[1])))
               /\ prm[FamilyIndex(Rest(w[1]))][p - 1] \in SixIntegerTypes,
        off |-> 6 + WidthTo(FamilyIndex(Rest(w[1])), p - 2),
        wd |-> Width(prm[FamilyIndex(Rest(w[1]))][p - 1])]

IntegerSlotOk(b, sl, tok) ==
  (sl.ok /\ IsInt(tok)) =>
     SubSeq(b, sl.off + 1, sl.off + sl.wd) = WireBytes(IntValue(tok), sl.wd)

IntegerLineOk(w, b) ==
  \A p \in 2..(NArgs(w) + 1) : IntegerSlotOk(b, IntegerSlot(w, p), w[p])

\* C20: an integer token of value v that goes to a field of w bytes (U1/I1,
\* U2/I2, U4/I4; in the generic families and in VALSET) is written as the w
\* bytes of v modulo 2^(8w), lowest byte first: values out of range wrap and
\* negative values are in two's complement.
C20_IntegerWire ==
  (Returned /\ Proper /\ n # 0) => IntegerLineOk(Words(msg), buff)

\* ---- C21 ----------------------------------------------------------------------
\* the 32 bytes of an S32 field for the token tok: its characters from the
\* left, then spaces; its first 32 characters when it is longer
Pad32(tok) == [x \in 1..32 |-> IF x <= Len(tok) THEN Ord[tok[x]] ELSE 32]

\* argument j of the line, "" when the line has no such argument
ArgOr(w, j) == IF j <= NArgs(w) THEN w[j + 1] ELSE <<>>

\* the byte that follows field j in the frame, where the terminator was
\* stored: the first byte of the next declared field, or of the first surplus
\* token, or the first checksum byte
AfterS32Ok(w, i, j, b, len) ==
  /\ 7 + WidthTo(i, j) <= len
  /\ IF j < Declared(i)
     THEN prm[i][j + 1] = FS32 => b[7 + WidthTo(i, j)] = Pad32(ArgOr(w, j + 1))[1]
     ELSE IF j < NArgs(w)
     THEN IsInt(w[j + 2]) => b[7 + WidthTo(i, j)] = WireBytes(IntValue(w[j + 2]), 1)[1]
     ELSE /\ len = 8 + WidthTo(i, j)
          /\ b[7 + WidthTo(i, j)] = FletcherA(b, len)

S32Ok(w, i, b, len) ==
  \A j \in 1..Declared(i) :
     prm[i][j] = FS32 =>
       /\ FieldAt(b, i, j) = Pad32(ArgOr(w, j))
       /\ AfterS32Ok(w, i, j, b, len)

S32LineOk(w, b, len) ==
  IsGeneric(w) => S32Ok(w, FamilyIndex(Rest(w[1])), b, len)

\* C21: in the final frame every S32 field (the three string fields of CFG-USB)
\* occupies exactly 32 bytes holding the token's characters left-justified and
\* padded with spaces, or its first 32 characters when the token is longer; the
\* terminator byte written after the field does not survive in the frame: the
\* byte at its place is that of the next field or of the checksum.
C21_S32Field ==
  (Returned /\ Proper /\ n # 0) => S32LineOk(Words(msg), buff, n)

\* "CFG-USB 1 2 0 0 256 26 UBLOX GNSS ABCDEF0123456789ABCDEF0123456789ABCDEF"
\* has been compiled: the serial number field holds the first 32 of the 38
\* characters, and the first checksum byte lies where its terminator was stored
C21_Witness ==
  /\ Returned
  /\ Proper
  /\ msg \in UsbLines
  /\ Len(Words(msg)) = 10
  /\ Len(Words(msg)[10]) = 38
  /\ SubSeq(buff, 19, 24) = <<\h55, \h42, \h4C, \h4F, \h58, \h20>>
  /\ SubSeq(buff, 51, 55) = <<\h47, \h4E, \h53, \h53, \h20>>
  /\ SubSeq(buff, 83, 114) = Pad32(SubSeq(UsbStrings[3], 1, 32))
  /\ buff[115] = FletcherA(buff, 116)
  /\ buff[115] # 0

\* ---- C22 ----------------------------------------------------------------------
\* a table of names: every entry but the last is a name, the last is the empty
\* sentinel
Sentinelled(tab) ==
  /\ Len(tab) >= 1
  /\ tab[Len(tab)] = <<>>
  /\ \A i \in 1..(Len(tab) - 1) : tab[i] # <<>>

\* the number of entries each table has before its sentinel
TablesAligned ==
  /\ Sentinelled(cmd)
  /\ Len(cmd) - 1 = 37
  /\ Len(id) = Len(cmd) - 1
  /\ Len(prm) = Len(cmd) - 1
  /\ \A i \in 1..Len(prm) : Len(prm[i]) = 32
  /\ Sentinelled(vcmd)
  /\ Len(vid) = Len(vcmd) - 1
  /\ Len(vprm) = Len(vcmd) - 1

\* the index at which the lookup of name in tab stops is, when the lookup has
\* succeeded, an index of the two companion tables
FoundIn(name, tab, a, b) ==
  tab[lookup(name, tab)] # <<>> =>
     lookup(name, tab) \in (DOMAIN a) \cap (DOMAIN b)

\* the lookups the call on the line with tokens w makes
LookupsOk(w) ==
  (w # <<>> /\ HasCFG(w[1])) =>
     /\ FoundIn(Rest(w[1]), cmd, id, prm)
     /\ (Len(w) = 7 /\ Rest(w[1]) = VALSET /\ HasCFG(w[6])) =>
           FoundIn(Rest(w[6]), vcmd, vid, vprm)

\* C22: the parallel static arrays are position-aligned: cmd, id and prm each
\* have one entry per family (37, before the empty sentinel), and vcmd, vid and
\* vprm each have one entry per dictionary name (before the empty sentinel), so
\* every index at which a name lookup succeeds is a valid index of the two
\* companion arrays.
C22_TablesAligned ==
  /\ TablesAligned
  /\ (Returned /\ Proper) => LookupsOk(Words(msg))

\* "CFG-VALSET 0 1 0 0 CFG-USBOUTPROT-RTCM3X 1" has been compiled: both lookups
\* have succeeded at the last index of their tables, and the frame carries the
\* last entry of id[] and the last entry of vid[]
C22_Witness ==
  /\ Returned
  /\ Proper
  /\ msg = ValsetLine(Hdr0100, <<"U","S","B","O","U","T","P","R","O","T","-","R","T","C","M","3","X">>, <<"1">>)
  /\ cmd_lookup(Words(msg)[1]) = 37
  /\ key_lookup(Words(msg)[6]) = 640
  /\ n = 17
  /\ buff[4] = \h8A
  /\ SubSeq(buff, 11, 14) = <<\h04, \h00, \h78, \h10>>

\* ---- C23 ----------------------------------------------------------------------
\* C23: for every input line, of any length, the scratch copy made for
\* tokenization stays within its 1024-byte capacity: no byte is stored past the
\* end of mbuff, so a line of 1024 or more characters does not overflow it.
C23_CopyFits == copy.top <= MBUFF_LEN

\* ---- C24 ----------------------------------------------------------------------
\* the reads the call makes next, in each loop: the column j - 1 of row i of
\* prm and, in the loop body, args[j]; args[0] in the family lookup; args[j]
\* and args[j + 1] in the VALSET block
ReadsInRange ==
  /\ run.at = "cmd" => 0 < Len(run.args)
  /\ run.at = "fields" =>
        /\ run.i \in 0..(Len(prm) - 1)
        /\ run.j - 1 \in 0..31
        /\ run.j < run.narg => run.j < Len(run.args)
  /\ run.at \in {"key", "vcmd"} =>
        /\ run.j = 5
        /\ Len(run.args) = 7
        /\ run.j + 1 < Len(run.args)

\* the call followed stays equal, at its return, to ubx_gen_cmd
SameAsCall ==
  run.at = "done" =>
     /\ run.n = Alone(run.line).n
     /\ run.m.buff = Alone(run.line).buff

\* C24: in every execution of ubx_gen_cmd, each read of the field table uses a
\* column index in 0..31 of the family's 32-entry row, and each read of the
\* token array uses an index below the number of tokens parsed (indices 5 and 6
\* only for a 7-token VALSET line), for every family and every token count.
C24_ReadsInRange == ReadsInRange /\ SameAsCall

\* the field loop of a line of 32 tokens makes its last test: it reads column
\* 31 of the row
C24_Witness ==
  /\ run.at = "fields"
  /\ Len(run.args) = 32
  /\ run.narg = 32
  /\ run.j = 32
  /\ run.nfield = 31

\* ---- C25 ----------------------------------------------------------------------
\* the passes made through each loop
LoopsBounded ==
  run.at # "idle" =>
     /\ run.ntok <= 32
     /\ run.nfield <= 32
     /\ run.i <= Len(cmd) - 1
     /\ run.k <= Len(vcmd) - 1

\* the call has returned 0 or a frame length
RunDone == run.at = "done" /\ (run.n = 0 \/ run.n >= 8)

\* C25: every call of ubx_gen_cmd terminates: the tokenizer loop runs at most
\* 32 times, the two name lookups stop at the empty sentinel entry at the
\* latest, the field loop runs at most 32 times, and then the call returns 0
\* or a frame length.
C25_Terminates == []LoopsBounded /\ <>RunDone

\* a line of 33 tokens of the last generic family has returned its frame after
\* 32 passes of the tokenizer loop, 36 failed comparisons and 31 passes of the
\* field loop
C25_Witness ==
  /\ run.at = "done"
  /\ run.ntok = 32
  /\ run.i = 35
  /\ run.nfield = 31
  /\ run.n = 8 + 4 + 28
  /\ Len(Words(run.line)) = 33


\* ---- C26 ------------------------------------------------------------------------
\* C26: runs of spaces never create empty tokens: a line with leading, trailing
\* or repeated spaces compiles to the same length and the same frame bytes as
\* the line with the same tokens separated by single spaces.
SingleSpaced(s) == Line(Words(s))
C26_SpacesCollapse ==
  (Returned /\ Proper) =>
    SameAsAlone([n |-> n, buff |-> buff], Alone(SingleSpaced(msg)))

\* a CFG-USB line with two leading spaces, three spaces between its ten tokens
\* and a trailing space has compiled to the 116-byte frame of the plain line
C26_Witness ==
  /\ Returned /\ Proper
  /\ msg \in SpacedLines
  /\ Len(msg) = Len(SingleSpaced(msg)) + 2 + 2 * 9 + 1
  /\ msg[1] = " " /\ msg[Len(msg)] = " "
  /\ Len(Words(msg)) = 10
  /\ n = 116
  /\ Frame(buff, n) = Frame(Alone(SingleSpaced(msg)).buff, 116)


\* ---- C27 ------------------------------------------------------------------------
\* C27: every frame produced for a VALSET command is at most 24 bytes long (8
\* framing bytes, 4 header bytes, 4 key bytes, a value of at most 8 bytes), no
\* dictionary entry has the 32-byte string type, and every frame the firmware
\* compiles fits its buffers of UBX_MSG_LEN bytes: nothing is written beyond.
IsValset(s) == Words(s) # <<>> /\ Words(s)[1] = CFG \o VALSET
NoStringKey == \A k \in 1..Len(vprm) : vprm[k] # FS32
C27_ValsetFits ==
  /\ NoStringKey
  /\ (Returned /\ Proper /\ IsValset(msg)) =>
       /\ n <= 24 /\ wend <= 24
       /\ n # 0 => n \in 17..24 /\ n = 8 + 4 + 4 + (n - 16)
  /\ (Returned /\ Proper /\ msg \in FirmwareLines) =>
       n <= UBX_MSG_LEN /\ wend <= UBX_MSG_LEN

\* a key of type R8 has compiled to a frame of 24 bytes, the longest
C27_Witness ==
  /\ Returned /\ Proper
  /\ \E k \in 1..(Len(vcmd) - 1) :
       vprm[k] = FR8 /\ msg = ValsetLine(Hdr0100, vcmd[k], <<"1">>)
  /\ n = 24 /\ wend = 24
  /\ buff[5] = 16 /\ buff[6] = 0


\* ---- C28 ------------------------------------------------------------------------
\* C28: every command string of configure_ublox_uart1 (8) and
\* configure_ublox_uart2 (9) compiles to a frame of non-zero length, so every
\* uart_write_bytes call transmits one complete frame and never zero bytes.
CompleteFrame(w) ==
  /\ w.len >= 8
  /\ Len(w.bytes) = w.len
  /\ w.bytes[1] = UBXSYNC1 /\ w.bytes[2] = UBXSYNC2
  /\ check_checksum(w.bytes, w.len)
WritesOf(u) == {u.w1[k] : k \in 1..Len(u.w1)} \cup {u.w2[k] : k \in 1..Len(u.w2)}
C28_EveryWriteAFrame == \A w \in WritesOf(uart) : w.len # 0 /\ CompleteFrame(w)

\* ---- C29 ------------------------------------------------------------------------
\* C29: for every value a UART read can return (0..RX_BUF_SIZE or -1) the
\* index at which the terminating zero is stored into data1 or data2 lies
\* within 0..RX_BUF_SIZE, inside the RX_BUF_SIZE + 1 bytes of the buffer.
InBuffer(z) == \A k \in 1..Len(z) : z[k] \in 0..RX_BUF_SIZE
C29_ZeroInBuffer == InBuffer(uart.z1) /\ InBuffer(uart.z2)

\* ---- C30 ------------------------------------------------------------------------
\* C30: no UART read happens before the complete UART1 and then the complete
\* UART2 configuration sequences have been written; whenever a UART2 read
\* returns 0 bytes the complete UART2 sequence is written again, from its
\* first command on, before the next UART1 read; if UART2 stays silent for
\* ever the re-send happens in every loop iteration without bound and reads of
\* UART1 still occur in every iteration.
Sent(w, lines) == Len(w) = Len(lines) /\ \A k \in 1..Len(w) : w[k].len # 0
ConfigSent == Sent(uart.w1, Uart1Lines) /\ Sent(uart.w2, Uart2Lines)
Uart1First == uart.w2 # <<>> => Len(uart.w1) = Len(Uart1Lines)
Reading == uart.at \in {"read1", "read2"}
ZeroRead == uart.at = "read2" /\ uart'.rx2 = <<0>>
Restarted == uart'.at = "cfg2" /\ uart'.k = 1 /\ uart'.w2 = <<>>
Silent == uart.rx2 \in {<<>>, <<0>>}
Resending == uart.at = "cfg2" /\ uart.rx2 = <<0>>
Uart1Read == uart.at = "read2" /\ uart.rx1 # <<>>
C30_ConfigThenReads ==
  /\ [](Uart1First /\ (Reading => ConfigSent))
  /\ [][ZeroRead => Restarted]_vars
  /\ ([]Silent => ([]<>Resending /\ []<>Uart1Read))

====
